---- MODULE Spec2Model ----
(***************************************************************************)
(* Layout pipeline of embedded-text: the tokenizing parser, the per-line   *)
(* element parser (LineElementParser), the line renderer and the text box  *)
(* driver.                                                                 *)
(*                                                                         *)
(* A text is a sequence of code points.  One-letter strings stand for the  *)
(* code points the layout distinguishes:                                   *)
(*   "a" a printable word character      " " U+0020 SPACE                  *)
(*   "N" U+000A \n                       "R" U+000D \r                     *)
(*   "_" U+00A0 NO-BREAK SPACE           "Z" U+200B ZERO WIDTH SPACE       *)
(*   "H" U+00AD SOFT HYPHEN              "T" U+0009 TAB                    *)
(*   "S" U+2003 EM SPACE (a breaking whitespace other than U+0020)         *)
(*   "E" the escape sequence ESC [ 9 2 m (SGR: change the text colour)     *)
(*   "B" the escape sequence ESC [ 1 D (cursor backward by one column)     *)
(* An escape sequence is one position of the text.                         *)
(* A string slice (&str) borrowed from the text is the half-open range of  *)
(* positions [a, b) of the text, positions counted from 1.                 *)
(***************************************************************************)
EXTENDS Integers, Sequences, FiniteSets, TLC

VARIABLES text, lineWidth, alignment, pc, parser, carried, cursorY,
          lep, lm, left, config, elems, lines, iters,
          boxHeight, callerStyle, style, penX, calls, displayErr, screen,
          redraw, run, screen1, first, tokens, peeked, sc, ansi, ci

\* the text box and its style, as the caller made it
boxVars == <<text, lineWidth, alignment, boxHeight, redraw>>
\* the locals of StyledTextBox::draw and of StyledLineRenderer::draw
drawVars == <<pc, parser, carried, cursorY, lep, lm, left, config, elems,
              lines, iters, style, penX>>
\* the display target: the calls that reached it, whether it returned an
\* error, and what was drawn to it
displayVars == <<calls, displayErr, screen>>
\* a parser driven on its own: the tokens next() returned and the last peek
parserVars == <<tokens, peeked>>
\* a space configuration, an escape sequence parser and a character
\* iterator driven on their own
unitVars == <<sc, ansi, ci>>

vars == <<boxVars, drawVars, displayVars, callerStyle, run, screen1, first,
          parserVars, unitVars>>

----------------------------------------------------------------------------
(* Bounds of the model *)

\* longest text over the full alphabet
MaxLen == 3
\* longest text of words, spaces, newlines and no-break spaces (Justified)
MaxLenJ == 5
\* longest text of words, soft hyphens and spaces
MaxLenH == 5
\* widest line, in pixels
MaxWidth == 8
\* advance of one character of the monospace font, in pixels
CharWidth == 2
\* tab size in spaces (TabSize::Spaces)
TabSpaces == 2
\* most line passes of one draw that are followed
MaxLines == 12
\* longest text with escape sequences
MaxLenA == 4
\* longest text drawn into boxes that are lower than the text
MaxLenB == 3
\* longest text given to a parser driven on its own
MaxLenP == 5
\* longest of the two words of a text laid out with a zero width space
\* and with a space between them
MaxWord == 3
\* longest text laid out with and without its escape sequences
MaxLenE == 5
\* widest space of a space configuration driven on its own, in pixels
MaxBase == 3
\* most spaces of such a configuration that are one pixel wider
MaxExtras == 4
\* most spaces taken from, peeked at or measured for such a configuration
MaxSpaces == 5
\* widest room given to max_space_width, in pixels
MaxMeasure == 9
\* most digits of the first parameter of an escape sequence given to the
\* escape sequence parser
MaxDigits == 3
\* height of a character of the font, in rows (CHARACTER_SIZE.height)
CharHeight == 3
\* width of a character of the font, in pixels (CHARACTER_SIZE.width)
GlyphWidth == 2
\* last row a row range given to a character iterator ends at
MaxRow == 5

SPEC_CHAR_NBSP == "_"

FullAlphabet == {"a", " ", "N", "R", "_", "Z", "H", "T"}
JustifiedAlphabet == {"a", " ", "N", "_"}
HyphenAlphabet == {"a", "H", " "}
AnsiAlphabet == {"a", " ", "E", "B"}
BoxAlphabet == {"a", " ", "N", "E"}
\* the code points parser.rs and the parser that LineElementParser is
\* written against turn into the same tokens
ParserAlphabet == {"a", " ", "S", "N", "R", "_", "Z"}

----------------------------------------------------------------------------
(* Tokens (parser.rs, enum Token; Break(Option<&str>) and Tab as matched   *)
(* by LineElementParser::next)                                             *)

NoToken == [k |-> "None", a |-> 0, b |-> 0]
NewLine == [k |-> "NewLine", a |-> 0, b |-> 0]
CarriageReturn == [k |-> "CarriageReturn", a |-> 0, b |-> 0]
Whitespace(n) == [k |-> "Whitespace", a |-> n, b |-> 0]
\* Word(&text[a..b])
Word(a, b) == [k |-> "Word", a |-> a, b |-> b]
\* Word("-"): the static string carried by a soft hyphen, not a slice of the text
HyphenWord == [k |-> "Hyphen", a |-> 0, b |-> 0]
BreakNone == [k |-> "Break", a |-> 0, b |-> 0]
BreakHyphen == [k |-> "Break", a |-> 1, b |-> 0]
Tab == [k |-> "Tab", a |-> 0, b |-> 0]
\* Token::EscapeSequence(AnsiSequence::SetGraphicsMode(..)) of an SGR
EscapeSgr == [k |-> "Escape", a |-> 1, b |-> 0]
\* Token::EscapeSequence(AnsiSequence::CursorBackward(1))
EscapeBackward == [k |-> "Escape", a |-> 2, b |-> 0]

IsWord(t) == t.k \in {"Word", "Hyphen"}

\* the code points of a string slice
SliceChars(t, w) == IF w.k = "Hyphen" THEN <<"-">> ELSE SubSeq(t, w.a, w.b - 1)
\* &w[from..] and &w[..to], offsets counted in code points from the start of w
SliceFrom(w, from) == IF w.k = "Hyphen" THEN w ELSE Word(w.a + from, w.b)
SliceTo(w, to) == IF w.k = "Hyphen" THEN w ELSE Word(w.a, w.a + to)

----------------------------------------------------------------------------
(* Parser (parser.rs) *)

\* char::is_whitespace on the code points of the model
is_whitespace(c) == c \in {" ", "S", "N", "R", "_", "T"}

\* the code points the parser of LineElementParser turns into tokens of
\* their own: soft hyphen -> Break(Some("-")), tab -> Tab, escape
\* sequence -> EscapeSequence
IsSpecialChar(c) == c \in {"H", "T", "E", "B"}

\* U+00A0 taken for the whitespace it is
is_word_char_no_nbsp(c) ==
    /\ ~is_whitespace(c) /\ c # "Z"
    /\ ~IsSpecialChar(c)

is_word_char(c) ==
    /\ (~is_whitespace(c) \/ c = "_") /\ c # "Z"
    /\ ~IsSpecialChar(c)

\* U+200B ends a whitespace run
is_space_char_no_zwsp(c) ==
    /\ is_whitespace(c) /\ c \notin {"N", "R", "_", "Z"}
    /\ ~IsSpecialChar(c)

is_space_char(c) ==
    /\ (is_whitespace(c) /\ c \notin {"N", "R", "_", "Z"}) \/ c = "Z"
    /\ ~IsSpecialChar(c)

RECURSIVE WordEnd(_, _)
WordEnd(t, j) ==
    IF j > Len(t) \/ ~is_word_char(t[j]) THEN j ELSE WordEnd(t, j + 1)

RECURSIVE SpaceRunSkips(_, _, _)
\* the code point that ends the run is consumed with it
SpaceRunSkips(t, j, len) ==
    IF j > Len(t) THEN [end |-> j, len |-> len]
    ELSE IF ~is_space_char(t[j]) THEN [end |-> j + 1, len |-> len]
    ELSE SpaceRunSkips(t, j + 1, IF t[j] # "Z" THEN len + 1 ELSE len)

RECURSIVE SpaceRunCountsZwsp(_, _, _)
\* U+200B counted like a breaking space
SpaceRunCountsZwsp(t, j, len) ==
    IF j > Len(t) \/ ~is_space_char(t[j])
    THEN [end |-> j, len |-> len]
    ELSE SpaceRunCountsZwsp(t, j + 1, len + 1)

RECURSIVE SpaceRun(_, _, _)
\* the end of the whitespace run and the number of spaces counted in it
SpaceRun(t, j, len) ==
    IF j > Len(t) \/ ~is_space_char(t[j])
    THEN [end |-> j, len |-> len]
    ELSE SpaceRun(t, j + 1, IF t[j] # "Z" THEN len + 1 ELSE len)

SpecialToken(c) ==
    IF c = "H" THEN BreakHyphen
    ELSE IF c = "T" THEN Tab
    ELSE IF c = "E" THEN EscapeSgr
    ELSE EscapeBackward

\* Parser::next: the token at position pos and the position after it
ParserNext(t, pos) ==
    IF pos > Len(t) THEN [tok |-> NoToken, pos |-> pos]
    ELSE LET c == t[pos] IN
         IF is_word_char(c)
         THEN LET e == WordEnd(t, pos + 1) IN [tok |-> Word(pos, e), pos |-> e]
         ELSE IF c = "N" THEN [tok |-> NewLine, pos |-> pos + 1]
         ELSE IF c = "R" THEN [tok |-> CarriageReturn, pos |-> pos + 1]
         ELSE IF c = "Z" THEN [tok |-> BreakNone, pos |-> pos + 1]
         ELSE IF IsSpecialChar(c) THEN [tok |-> SpecialToken(c), pos |-> pos + 1]
         ELSE LET r == SpaceRun(t, pos + 1, 1) IN
              [tok |-> Whitespace(r.len), pos |-> r.end]

\* Parser::is_empty
ParserIsEmpty(t, pos) == pos > Len(t)

\* peek on the parser itself, without the clone
PeekNoClone(t, pos) == ParserNext(t, pos)

\* Parser::peek, `self.clone().next()`: the token, and the position the
\* parser is left at
Peek(t, pos) == [tok |-> ParserNext(t, pos).tok, pos |-> pos]

----------------------------------------------------------------------------
(* Escape sequences (parser/ansi.rs).  The input is the code points after  *)
(* the escape character: "ESC", "[", ";", "m", digits and "a" for any      *)
(* other.  A result is Some(v) read up to pos, None, or a panic.           *)

Digits == {"0", "1", "2", "3", "4", "5", "6", "7", "8", "9"}

DigitValue(c) ==
    CASE c = "0" -> 0 [] c = "1" -> 1 [] c = "2" -> 2 [] c = "3" -> 3
      [] c = "4" -> 4 [] c = "5" -> 5 [] c = "6" -> 6 [] c = "7" -> 7
      [] c = "8" -> 8 [] c = "9" -> 9

SomeAt(v, pos) == [some |-> TRUE, panic |-> FALSE, v |-> v, pos |-> pos]
NoneAt(pos) == [some |-> FALSE, panic |-> FALSE, v |-> 0, pos |-> pos]
PanicAt(pos) == [some |-> FALSE, panic |-> TRUE, v |-> 0, pos |-> pos]

\* the `?` operator: None and a panic end the function
Failed(r) == ~r.some

\* try_parse_digit: one decimal digit as a u8
try_parse_digit(cs, pos) ==
    IF pos <= Len(cs) /\ cs[pos] \in Digits
    THEN SomeAt(DigitValue(cs[pos]), pos + 1)
    ELSE NoneAt(pos)

\* expect: the code point c, or None and nothing read
expect(cs, pos, c) ==
    IF pos <= Len(cs) /\ cs[pos] = c THEN SomeAt(0, pos + 1) ELSE NoneAt(pos)

\* try_parse: what the closure returned, and nothing read when it
\* returned None
try_parse(r, pos) == IF r.some \/ r.panic THEN r ELSE NoneAt(pos)

\* arithmetic of u8: a value above 255 panics where overflow is checked and
\* wraps where it is not
U8(v, pos, checks) ==
    IF v <= 255 THEN SomeAt(v, pos)
    ELSE IF checks THEN PanicAt(pos)
    ELSE SomeAt(v % 256, pos)

\* try_parse_u8: up to three digits, 100 * h + 10 * t + o in u8
try_parse_u8(cs, pos, checks) ==
    LET Ones(h, t, o) ==
            IF ~o.some THEN SomeAt(10 * h.v + t.v, t.pos)
            ELSE U8(100 * h.v + 10 * t.v + o.v, o.pos, checks)
        Tens(h, t) ==
            IF ~t.some THEN SomeAt(h.v, h.pos)
            ELSE Ones(h, t, try_parse_digit(cs, t.pos))
        Hundreds(h) ==
            IF ~h.some THEN NoneAt(pos)
            ELSE Tens(h, try_parse_digit(cs, h.pos))
    IN try_parse(Hundreds(try_parse_digit(cs, pos)), pos)

Rgb(r, g, b) == <<r, g, b>>

\* standard_to_rgb
standard_to_rgb(idx) ==
    CASE idx = 0 -> Rgb(12, 12, 12)
      [] idx = 1 -> Rgb(197, 15, 31)
      [] idx = 2 -> Rgb(19, 161, 14)
      [] idx = 3 -> Rgb(193, 156, 0)
      [] idx = 4 -> Rgb(0, 55, 218)
      [] idx = 5 -> Rgb(136, 23, 152)
      [] idx = 6 -> Rgb(58, 150, 221)
      [] idx = 7 -> Rgb(204, 204, 204)
      [] idx = 8 -> Rgb(118, 118, 118)
      [] idx = 9 -> Rgb(231, 72, 86)
      [] idx = 10 -> Rgb(22, 198, 12)
      [] idx = 11 -> Rgb(249, 241, 165)
      [] idx = 12 -> Rgb(59, 120, 255)
      [] idx = 13 -> Rgb(180, 0, 158)
      [] idx = 14 -> Rgb(97, 214, 214)
      [] OTHER -> Rgb(242, 242, 242)

\* try_parse_8b_color
try_parse_8b_color(cs, pos, checks) ==
    LET Cube(c) == Rgb(((c \div 36) % 6) * 51, ((c \div 6) % 6) * 51,
                       (c % 6) * 51)
        Gray(level) == IF level = 23 THEN Rgb(255, 255, 255)
                       ELSE Rgb(level * 11, level * 11, level * 11)
        Match(color) ==
            IF Failed(color) THEN color
            ELSE IF color.v <= 15
            THEN SomeAt(standard_to_rgb(color.v), color.pos)
            ELSE IF color.v <= 231 THEN SomeAt(Cube(color.v - 16), color.pos)
            ELSE SomeAt(Gray(color.v - 232), color.pos)
    IN Match(try_parse_u8(cs, pos, checks))

\* try_parse_rgb
try_parse_rgb(cs, pos, checks) ==
    LET Blue(r, g, b) ==
            IF Failed(b) THEN b ELSE SomeAt(Rgb(r.v, g.v, b.v), b.pos)
        Sep2(r, g, e) ==
            IF Failed(e) THEN e
            ELSE Blue(r, g, try_parse_u8(cs, e.pos, checks))
        Green(r, g) ==
            IF Failed(g) THEN g ELSE Sep2(r, g, expect(cs, g.pos, ";"))
        Sep1(r, e) ==
            IF Failed(e) THEN e
            ELSE Green(r, try_parse_u8(cs, e.pos, checks))
        Red(r) ==
            IF Failed(r) THEN r ELSE Sep1(r, expect(cs, r.pos, ";"))
    IN Red(try_parse_u8(cs, pos, checks))

\* try_parse_color
try_parse_color(cs, pos, checks) ==
    LET Colour(color_type, e) ==
            IF Failed(e) THEN e
            ELSE IF color_type.v = 2 THEN try_parse_rgb(cs, e.pos, checks)
            ELSE IF color_type.v = 5
            THEN try_parse_8b_color(cs, e.pos, checks)
            ELSE NoneAt(pos)
        Type(color_type) ==
            IF Failed(color_type) THEN color_type
            ELSE Colour(color_type, expect(cs, color_type.pos, ";"))
        Sep(e) ==
            IF Failed(e) THEN e ELSE Type(try_parse_u8(cs, e.pos, checks))
    IN Sep(expect(cs, pos, ";"))

\* the tokens of an escape sequence
EscapeToken == [k |-> "Escape", rgb |-> Rgb(0, 0, 0)]
ChangeTextColor(rgb) == [k |-> "ChangeTextColor", rgb |-> rgb]
ChangeBackgroundColor(rgb) == [k |-> "ChangeBackgroundColor", rgb |-> rgb]
NoColour == [k |-> "None", rgb |-> Rgb(0, 0, 0)]

\* the arms of the 16 colours with the bright colours read as the normal
\* ones
StandardColourNoBright(code) ==
    IF 30 <= code /\ code <= 37 THEN ChangeTextColor(standard_to_rgb(code - 30))
    ELSE IF 90 <= code /\ code <= 97
    THEN ChangeTextColor(standard_to_rgb(code - 90))
    ELSE IF 40 <= code /\ code <= 47
    THEN ChangeBackgroundColor(standard_to_rgb(code - 40))
    ELSE IF 100 <= code /\ code <= 107
    THEN ChangeBackgroundColor(standard_to_rgb(code - 100))
    ELSE NoColour

\* try_parse_escape_seq, the arms of `match code` that take no parameter
StandardColour(code) ==
    IF 30 <= code /\ code <= 37 THEN ChangeTextColor(standard_to_rgb(code - 30))
    ELSE IF 90 <= code /\ code <= 97
    THEN ChangeTextColor(standard_to_rgb(code - 82))
    ELSE IF 40 <= code /\ code <= 47
    THEN ChangeBackgroundColor(standard_to_rgb(code - 40))
    ELSE IF 100 <= code /\ code <= 107
    THEN ChangeBackgroundColor(standard_to_rgb(code - 92))
    ELSE NoColour

\* try_parse_escape_seq: the token of the sequence that starts at pos
try_parse_escape_seq(cs, pos, checks) ==
    LET \* possible_token, and the result after `expect(chars, 'm')?`
        End(t, e) ==
            IF Failed(e) THEN e
            ELSE IF t = NoColour THEN NoneAt(pos) ELSE SomeAt(t, e.pos)
        Token(t, r) == End(t, expect(cs, r.pos, "m"))
        TextColour(color) ==
            IF Failed(color) THEN color
            ELSE Token(ChangeTextColor(color.v), color)
        BackgroundColour(color) ==
            IF Failed(color) THEN color
            ELSE Token(ChangeBackgroundColor(color.v), color)
        Csi(code) ==
            IF Failed(code) THEN code
            ELSE IF code.v = 38
            THEN TextColour(try_parse_color(cs, code.pos, checks))
            ELSE IF code.v = 48
            THEN BackgroundColour(try_parse_color(cs, code.pos, checks))
            ELSE Token(StandardColour(code.v), code)
    IN try_parse(IF pos > Len(cs) THEN NoneAt(pos)
                 ELSE IF cs[pos] = "ESC" THEN SomeAt(EscapeToken, pos + 1)
                 ELSE IF cs[pos] = "[" THEN Csi(try_parse_u8(cs, pos + 1, checks))
                 ELSE NoneAt(pos),
                 pos)

----------------------------------------------------------------------------
(* Font measurement (utils/font_ext.rs) *)

\* FontExt::str_width_nocr: every code point advances by the same width
str_width(chars) == Len(chars) * CharWidth

\* max_space_width without the bound n on the number of spaces
max_space_width_unbounded(n, max_width) ==
    <<(max_width \div CharWidth) * CharWidth, max_width \div CharWidth>>

\* FontExt::max_space_width: the width and the number of the spaces that
\* fit
max_space_width(n, max_width) ==
    LET space_width == CharWidth
        Min(a, b) == IF a < b THEN a ELSE b
        Fit(num_spaces) == <<num_spaces * space_width, num_spaces>>
    IN Fit(Min(max_width \div space_width, n))

----------------------------------------------------------------------------
(* Space configuration (alignment/justified.rs, JustifiedSpaceConfig) *)

\* JustifiedSpaceConfig::new
SpaceConfigNew(space_width, extra_pixel_count) ==
    [space_width |-> space_width, space_count |-> extra_pixel_count]

\* JustifiedSpaceConfig::default: the uniform configuration
UniformSpaceConfig == SpaceConfigNew(CharWidth, 0)

\* peek_next_width with every extra pixel counted, however few spaces are
\* asked for
peek_next_width_all_extras(cfg, n) == n * cfg.space_width + cfg.space_count

\* peek_next_width
peek_next_width(cfg, n) ==
    n * cfg.space_width + (IF cfg.space_count < n THEN cfg.space_count ELSE n)

\* next_space_width: the width of one space, and the configuration after it
next_space_width(cfg) ==
    IF cfg.space_count = 0
    THEN [w |-> cfg.space_width, cfg |-> cfg]
    ELSE [w |-> cfg.space_width + 1,
          cfg |-> [cfg EXCEPT !.space_count = cfg.space_count - 1]]

RECURSIVE consume(_, _)
\* SpaceConfig::consume(n): n spaces taken one after the other
consume(cfg, n) ==
    IF n = 0 THEN [w |-> 0, cfg |-> cfg]
    ELSE LET one == next_space_width(cfg)
             rest == consume(one.cfg, n - 1)
         IN [w |-> one.w + rest.w, cfg |-> rest.cfg]

----------------------------------------------------------------------------
(* Line cursor: x is the pen column, width the line width *)

fits_in_line(s, width) == s.x + width <= s.width
space(s) == IF s.width >= s.x THEN s.width - s.x ELSE 0
\* the cursor moves left by what it should move right by
advance_unchecked_back(s, by) == [s EXCEPT !.x = s.x - by]
advance_unchecked(s, by) == [s EXCEPT !.x = s.x + by]
\* Cursor::advance: Ok(by) when it fits, else Err(space left) and no move
advance(s, by) ==
    IF fits_in_line(s, by)
    THEN [ok |-> TRUE, w |-> by, s |-> advance_unchecked(s, by)]
    ELSE [ok |-> FALSE, w |-> space(s), s |-> s]
\* Cursor::rewind: false, and no move, when by exceeds the column
rewind(s, by) ==
    IF by <= s.x THEN [ok |-> TRUE, s |-> [s EXCEPT !.x = s.x - by]]
    ELSE [ok |-> FALSE, s |-> s]
\* Cursor::carriage_return
carriage_return(s) == [s EXCEPT !.x = 0]
\* LineElementParser::move_cursor
move_cursor(s, by) ==
    LET Rewound(r) == IF ~r.ok THEN carriage_return(s) ELSE r.s
    IN IF by < 0 THEN Rewound(rewind(s, -by)) ELSE advance(s, by).s
TabWidth == TabSpaces * CharWidth
next_tab_width(s) == ((s.x \div TabWidth) + 1) * TabWidth - s.x

----------------------------------------------------------------------------
(* Render elements (line_iter.rs, enum RenderElement) *)

Space(width, count) == [e |-> "Space", a |-> width, b |-> count]
\* PrintedCharacters(w)
PrintedCharacters(w) ==
    IF w.k = "Hyphen" THEN [e |-> "Hyphen", a |-> 0, b |-> 0]
    ELSE [e |-> "Chars", a |-> w.a, b |-> w.b]
\* RenderElement::Sgr(sgr)
Sgr == [e |-> "Sgr", a |-> 0, b |-> 0]
\* RenderElement::MoveCursor(delta)
MoveCursor(delta) == [e |-> "Move", a |-> delta, b |-> 0]
\* next() returned None
NoElement == [e |-> "None", a |-> 0, b |-> 0]
\* the loop of next() goes round once more
Continue == [e |-> "Loop", a |-> 0, b |-> 0]

----------------------------------------------------------------------------
(* LineElementParser (line_iter.rs).  Its state s:                         *)
(*   st, tk      current_token: State::ProcessToken(tk), Word(tk),         *)
(*               FirstWord(tk) or Done                                     *)
(*   x, width    the cursor: pen column and line width                     *)
(*   pos         the parser's position                                     *)
(*   carried     the carry slot                                            *)
(*   first_word, cfg (the space configuration)                             *)

\* every alignment renders the spaces before the first word
STARTING_SPACES_Always == TRUE
STARTING_SPACES == alignment = "Left"
ENDING_SPACES == alignment = "Left"

\* LineElementParser::new
LepNew(pos, width, x, cfg, carried_token) ==
    LET keep == carried_token.k # "None"
                /\ carried_token \notin {NewLine, CarriageReturn, BreakNone}
        With(nx) ==
            [st |-> IF nx.tok.k = "None" THEN "Done" ELSE "ProcessToken",
             tk |-> nx.tok,
             x |-> x, width |-> width,
             pos |-> nx.pos,
             carried |-> NoToken,
             first_word |-> TRUE,
             cfg |-> cfg]
    IN IF keep THEN With([tok |-> carried_token, pos |-> pos])
       ELSE With(ParserNext(text, pos))

finish_end_of_string(s) == [s EXCEPT !.st = "Done", !.tk = NoToken]

next_token(s) ==
    LET With(nx) ==
            IF nx.tok.k = "None" THEN finish_end_of_string(s)
            ELSE [s EXCEPT !.st = "ProcessToken", !.tk = nx.tok, !.pos = nx.pos]
    IN With(ParserNext(text, s.pos))

finish(s, t) == [s EXCEPT !.carried = t, !.st = "Done", !.tk = NoToken]

finish_wrapped(s) == finish(s, BreakNone)

RECURSIVE Lookahead(_, _)
\* the loop of next_word_width: width.some is FALSE for None
Lookahead(pos, width) ==
    LET With(nx) ==
            IF nx.tok.k = "Word"
            THEN Lookahead(nx.pos,
                           [some |-> TRUE,
                            w |-> width.w + str_width(SliceChars(text, nx.tok))])
            ELSE IF nx.tok = BreakHyphen
            THEN [some |-> TRUE, w |-> width.w + str_width(<<"-">>)]
            ELSE IF nx.tok.k = "Escape" THEN Lookahead(nx.pos, width)
            ELSE width
    IN With(ParserNext(text, pos))

next_word_width(s) == Lookahead(s.pos, [some |-> FALSE, w |-> 0])

RECURSIVE WidestSpaceSeq(_, _, _)
WidestSpaceSeq(s, n, spaces_to_render) ==
    IF spaces_to_render < n
       /\ peek_next_width(s.cfg, spaces_to_render + 1) < space(s)
    THEN WidestSpaceSeq(s, n, spaces_to_render + 1)
    ELSE spaces_to_render

count_widest_space_seq(s, n) == WidestSpaceSeq(s, n, 0)

\* The result of one round of the loop of next(): the state after it and
\* the element returned (Continue: no return, the loop goes on).
Round(s, out) == [s |-> s, out |-> out]

\* Token::Whitespace(n)
ProcessWhitespace(s, n) ==
    LET s1 == IF s.first_word /\ STARTING_SPACES
              THEN [s EXCEPT !.first_word = FALSE] ELSE s
        \* the spaces rendered: m of them asked for, spaces_to_render fit
        Render(m, spaces_to_render, sp) ==
            IF spaces_to_render > 0
            THEN Round(IF m - spaces_to_render = 0
                       THEN next_token(advance_unchecked(
                                [s1 EXCEPT !.cfg = sp.cfg], sp.w))
                       ELSE finish(advance_unchecked(
                                [s1 EXCEPT !.cfg = sp.cfg], sp.w),
                                Whitespace(m - spaces_to_render)),
                       Space(sp.w, spaces_to_render))
            ELSE Round(IF m > 1 THEN finish(s1, Whitespace(m - 1))
                       ELSE finish_wrapped(s1),
                       Continue)
        Count(m, spaces_to_render) ==
            Render(m, spaces_to_render, consume(s1.cfg, spaces_to_render))
        Decide(render_whitespace, would_wrap, m) ==
            IF render_whitespace THEN Count(m, count_widest_space_seq(s1, m))
            ELSE IF would_wrap THEN Round(finish_wrapped(s1), Continue)
            ELSE Round(next_token(s1), Continue)
        Wrap(nww, fits, would_wrap) ==
            Decide(IF s.first_word THEN STARTING_SPACES
                   ELSE IF nww.some THEN ENDING_SPACES \/ fits
                   ELSE ENDING_SPACES,
                   would_wrap,
                   IF would_wrap THEN (IF n > 0 THEN n - 1 ELSE 0) ELSE n)
        Fit(nww, fits) == Wrap(nww, fits, ~s.first_word /\ nww.some /\ ~fits)
        Look(nww) ==
            Fit(nww, fits_in_line(s, peek_next_width(s.cfg, n) + nww.w))
    IN Look(next_word_width(s))

\* ProcessBreak with Some(c) handled like None: the line wraps and c is
\* not rendered
ProcessBreakSilent(s, c) ==
    LET Look(nww) ==
            IF (IF nww.some THEN fits_in_line(s, nww.w) ELSE TRUE)
            THEN Round(next_token(s), Continue)
            ELSE Round(finish_wrapped(s), Continue)
    IN Look(next_word_width(s))

\* Token::Break(c): c = 1 for Some("-"), 0 for None
ProcessBreak(s, c) ==
    LET Look(nww, adv) ==
            IF (IF nww.some THEN fits_in_line(s, nww.w) ELSE TRUE)
            THEN Round(next_token(s), Continue)
            ELSE IF c = 1
            THEN IF adv.ok
                 THEN Round(finish_wrapped(adv.s), PrintedCharacters(HyphenWord))
                 ELSE Round(finish(s, HyphenWord), Continue)
            ELSE Round(finish_wrapped(s), Continue)
    IN Look(next_word_width(s), advance(s, str_width(<<"-">>)))

\* Token::Word(w)
ProcessWord(s, w) ==
    IF fits_in_line(s, str_width(SliceChars(text, w)))
    THEN Round([s EXCEPT !.first_word = FALSE, !.st = "Word", !.tk = w], Continue)
    ELSE IF s.first_word
    THEN Round([s EXCEPT !.first_word = FALSE, !.st = "FirstWord", !.tk = w],
               Continue)
    ELSE Round(finish(s, w), Continue)

\* ProcessTab with the tab counted as one space, and the line going on after
\* a tab that does not fit
ProcessTabCounted(s) ==
    LET Move(adv) == Round(next_token(adv.s), Space(adv.w, 1))
    IN Move(advance(s, next_tab_width(s)))

\* Token::Tab
ProcessTab(s) ==
    LET Move(adv) ==
            IF adv.ok THEN Round(next_token(adv.s), Space(adv.w, 0))
            ELSE Round(finish_wrapped(adv.s), Space(adv.w, 0))
    IN Move(advance(s, next_tab_width(s)))

\* Token::NewLine | Token::CarriageReturn
ProcessLineEnd(s, token) == Round(finish(s, token), Continue)

\* Token::EscapeSequence(seq)
ProcessEscape(s, seq) ==
    LET Moved(s1, delta) == Round(move_cursor(s1, delta), MoveCursor(delta))
    IN IF seq = 1 THEN Round(next_token(s), Sgr)
       ELSE Moved(next_token(s), -(1 * str_width(<<" ">>)))

\* State::ProcessToken(token)
ProcessToken(s, token) ==
    IF token.k = "Whitespace" THEN ProcessWhitespace(s, token.a)
    ELSE IF token.k = "Break" THEN ProcessBreak(s, token.a)
    ELSE IF IsWord(token) THEN ProcessWord(s, token)
    ELSE IF token.k = "Tab" THEN ProcessTab(s)
    ELSE IF token.k = "Escape" THEN ProcessEscape(s, token.a)
    ELSE ProcessLineEnd(s, token)

\* w.char_indices().find(|(_, c)| *c == SPEC_CHAR_NBSP): 0 when there is
\* none, else the offset of the first one plus 1
FindNbsp(w) ==
    LET cs == SliceChars(text, w)
        at == {i \in 1..Len(cs) : cs[i] = SPEC_CHAR_NBSP}
    IN IF at = {} THEN 0 ELSE CHOOSE i \in at : \A j \in at : i <= j

\* State::Word(w)
StateWord(s, w) ==
    LET Found(f, sp) ==
            IF f = 1
            THEN Round(advance_unchecked(
                         [s EXCEPT !.st = "Word", !.tk = SliceFrom(w, 1),
                                   !.cfg = sp.cfg],
                         sp.w),
                       Space(sp.w, 1))
            ELSE IF f > 1
            THEN Round(advance_unchecked(
                         [s EXCEPT !.st = "Word", !.tk = SliceFrom(w, f - 1)],
                         str_width(SliceChars(text, SliceTo(w, f - 1)))),
                       PrintedCharacters(SliceTo(w, f - 1)))
            ELSE Round(advance_unchecked(next_token(s),
                                         str_width(SliceChars(text, w))),
                       PrintedCharacters(w))
    IN Found(FindNbsp(w), consume(s.cfg, 1))

\* FirstWordNoFit with the word carried when no character of it fits, in
\* place of the end of the string
FirstWordNoFitCarry(s, w, start_idx, width) ==
    IF start_idx = 0
    THEN Round(finish(s, w), NoElement)
    ELSE Round(finish(advance_unchecked(s, width), SliceFrom(w, start_idx)),
               PrintedCharacters(SliceTo(w, start_idx)))

\* State::FirstWord(w), a character that does not fit: start_idx characters
\* of total width `width` fit before it
FirstWordNoFit(s, w, start_idx, width) ==
    IF start_idx = 0
    THEN Round(finish_end_of_string(s), NoElement)
    ELSE Round(finish(advance_unchecked(s, width), SliceFrom(w, start_idx)),
               PrintedCharacters(SliceTo(w, start_idx)))

\* State::FirstWord(w), a no-break space that fits
FirstWordNbsp(s, w, start_idx, width, char_width) ==
    IF start_idx = 0
    THEN Round(advance_unchecked(
                 [s EXCEPT !.st = "FirstWord", !.tk = SliceFrom(w, 1),
                           !.cfg = consume(s.cfg, 1).cfg],
                 char_width),
               Space(char_width, 1))
    ELSE Round(advance_unchecked(
                 [s EXCEPT !.st = "FirstWord", !.tk = SliceFrom(w, start_idx)],
                 width),
               PrintedCharacters(SliceTo(w, start_idx)))

RECURSIVE FirstWordLoop(_, _, _, _)
\* the loop `for c in w.chars()` of State::FirstWord
FirstWordLoop(s, w, start_idx, width) ==
    LET Char(c, char_width) ==
            IF fits_in_line(s, width + char_width)
            THEN IF c = SPEC_CHAR_NBSP
                 THEN FirstWordNbsp(s, w, start_idx, width, char_width)
                 ELSE FirstWordLoop(s, w, start_idx + 1, width + char_width)
            ELSE FirstWordNoFit(s, w, start_idx, width)
        Chars(cs) ==
            IF start_idx >= Len(cs)
            THEN Round(advance_unchecked(next_token(s), width),
                       PrintedCharacters(w))
            ELSE Char(cs[start_idx + 1],
                      IF cs[start_idx + 1] = SPEC_CHAR_NBSP
                      THEN peek_next_width(s.cfg, 1)
                      ELSE str_width(<<cs[start_idx + 1]>>))
    IN Chars(SliceChars(text, w))

\* State::FirstWord(w)
StateFirstWord(s, w) == FirstWordLoop(s, w, 0, 0)

\* one round of the loop of LineElementParser::next
LepRound(s) ==
    IF s.st = "ProcessToken" THEN ProcessToken(s, s.tk)
    ELSE IF s.st = "Word" THEN StateWord(s, s.tk)
    ELSE IF s.st = "FirstWord" THEN StateFirstWord(s, s.tk)
    ELSE Round(s, NoElement)

RECURSIVE LepNextFrom(_, _)
\* LineElementParser::next: rounds until one returns; n counts the rounds
LepNextFrom(s, n) ==
    LET After(r) ==
            IF r.out = Continue THEN LepNextFrom(r.s, n + 1)
            ELSE [s |-> r.s, out |-> r.out, rounds |-> n + 1]
    IN After(LepRound(s))

LepNext(s) == LepNextFrom(s, 0)

RECURSIVE ProcessFrom(_, _)
\* LineElementParser::process: every element of the line, and the state
\* the parser is left in
ProcessFrom(s, done) ==
    LET After(r) ==
            IF r.out = NoElement THEN [s |-> r.s, elems |-> done]
            ELSE ProcessFrom(r.s, Append(done, r.out))
    IN After(LepNext(s))

Process(s) == ProcessFrom(s, <<>>)

----------------------------------------------------------------------------
(* Measurement and placement of one line *)

\* the pixels an element moves the pen by
ElemWidth(e) ==
    IF e.e = "Space" THEN e.a
    ELSE IF e.e = "Hyphen" THEN str_width(<<"-">>)
    ELSE IF e.e = "Chars" THEN (e.b - e.a) * CharWidth
    ELSE 0

IsPrinted(e) == e.e \in {"Chars", "Hyphen"}

RECURSIVE SumWidth(_)
SumWidth(es) == IF es = <<>> THEN 0 ELSE ElemWidth(Head(es)) + SumWidth(Tail(es))

RECURSIVE SumCount(_)
\* the spaces counted by the Space elements of es
SumCount(es) ==
    IF es = <<>> THEN 0
    ELSE (IF Head(es).e = "Space" THEN Head(es).b ELSE 0) + SumCount(Tail(es))

\* the elements up to the last PrintedCharacters
UpToLastPrinted(es) ==
    LET at == {i \in 1..Len(es) : IsPrinted(es[i])}
    IN IF at = {} THEN <<>>
       ELSE SubSeq(es, 1, CHOOSE i \in at : \A j \in at : j <= i)

\* TextBoxStyle::measure_line: the element parser run over a clone of the
\* parser, from column 0, with uniform spaces
measure_line(pos, carried_token, max_line_width) ==
    LET Measured(r, printed) ==
            [width |-> SumWidth(printed),
             trailing_space_width |-> SumWidth(r.elems) - SumWidth(printed),
             space_count |-> SumCount(printed),
             last_line |-> r.s.carried \in {NoToken, NewLine},
             carried |-> r.s.carried,
             pos |-> r.s.pos]
        Processed(r) == Measured(r, UpToLastPrinted(r.elems))
    IN Processed(Process(LepNew(pos, max_line_width, 0, UniformSpaceConfig,
                                carried_token)))

RECURSIVE MeasureChars(_, _, _)
\* FontExt::measure_line of the Justified iterator: the width of the
\* longest prefix of chars that fits max_width, and whether all of it fits
MeasureChars(chars, max_width, width) ==
    IF chars = <<>> THEN [width |-> width, fits_line |-> TRUE]
    ELSE IF width + str_width(<<Head(chars)>>) > max_width
    THEN [width |-> width, fits_line |-> FALSE]
    ELSE MeasureChars(Tail(chars), max_width, width + str_width(<<Head(chars)>>))

RECURSIVE JustifiedWalk(_, _, _)
\* the loop `for token in self.parser.clone()` of JustifiedState::NextLine;
\* j holds its local variables
JustifiedWalk(pos, max_line_width, j) ==
    LET OnWhitespace(nx, n, lww) ==
            IF j.total_width + j.total_whitespace_width + lww >= max_line_width
            THEN [j EXCEPT !.stretch_line = TRUE,
                           !.last_whitespace_count = n,
                           !.last_whitespace_width = lww]
            ELSE JustifiedWalk(nx.pos, max_line_width,
                     [j EXCEPT !.last_whitespace_count = n,
                               !.last_whitespace_width = lww])
        OnWord(nx, wm) ==
            IF ~wm.fits_line THEN [j EXCEPT !.stretch_line = TRUE]
            ELSE JustifiedWalk(nx.pos, max_line_width,
                     [j EXCEPT
                        !.total_width = j.total_width + wm.width,
                        !.total_whitespace_width =
                            j.total_whitespace_width + j.last_whitespace_width,
                        !.total_whitespace_count =
                            j.total_whitespace_count + j.last_whitespace_count,
                        !.last_whitespace_count = 0,
                        !.last_whitespace_width = 0])
        OnToken(nx) ==
            CASE nx.tok.k = "None" -> j
              [] nx.tok.k = "NewLine" -> j
              [] nx.tok.k = "Whitespace" /\ j.total_width = 0 ->
                    JustifiedWalk(nx.pos, max_line_width, j)
              [] nx.tok.k = "Whitespace" /\ j.total_width # 0 ->
                    OnWhitespace(nx, nx.tok.a,
                        IF nx.tok.a * CharWidth < max_line_width - j.total_width
                        THEN nx.tok.a * CharWidth
                        ELSE max_line_width - j.total_width)
              [] nx.tok.k = "Word" ->
                    OnWord(nx, MeasureChars(SliceChars(text, nx.tok),
                                            max_line_width - j.total_width
                                              - j.total_whitespace_width
                                              - j.last_whitespace_width, 0))
    IN OnToken(ParserNext(text, pos))

\* space_info of JustifiedState::NextLine, from the walk's result
JustifiedSpaceInfo(j, max_line_width) ==
    IF j.stretch_line /\ j.total_whitespace_count # 0
    THEN LET total_space_width == max_line_width - j.total_width
         IN SpaceConfigNew(total_space_width \div j.total_whitespace_count,
                           total_space_width % j.total_whitespace_count)
    ELSE UniformSpaceConfig

\* JustifiedState::NextLine: the space configuration of the line that
\* starts at pos with the carried token
JustifiedNextLine(pos, carried_token, max_line_width) ==
    LET Walked(j) == [j |-> j, cfg |-> JustifiedSpaceInfo(j, max_line_width)]
        Start(measurement, j0) ==
            Walked(IF measurement.fits_line
                   THEN JustifiedWalk(pos, max_line_width, j0)
                   ELSE j0)
        Carried(measurement) ==
            Start(measurement,
                  [total_width |-> measurement.width,
                   total_whitespace_count |-> 0,
                   total_whitespace_width |-> 0,
                   last_whitespace_count |-> 0,
                   last_whitespace_width |-> 0,
                   stretch_line |-> FALSE])
    IN Carried(IF carried_token.k = "Word"
               THEN MeasureChars(SliceChars(text, carried_token),
                                 max_line_width, 0)
               ELSE [width |-> 0, fits_line |-> TRUE])

\* HorizontalTextAlignment::place_line: the left offset and the space
\* configuration of the render pass
place_line(pos, carried_token, max_line_width, m) ==
    IF alignment = "Right"
    THEN [left |-> max_line_width - m.width, cfg |-> UniformSpaceConfig]
    ELSE IF alignment = "Center"
    THEN [left |-> (max_line_width - m.width) \div 2, cfg |-> UniformSpaceConfig]
    ELSE IF alignment = "Justified"
    THEN [left |-> 0,
          cfg |-> JustifiedNextLine(pos, carried_token, max_line_width).cfg]
    ELSE [left |-> 0, cfg |-> UniformSpaceConfig]

----------------------------------------------------------------------------
(* The text box driver (rendering/mod.rs, StyledTextBox::draw) and the line *)
(* renderer (rendering/line.rs, StyledLineRenderer::draw)                   *)

IdleLep == [st |-> "Done", tk |-> NoToken, x |-> 0, width |-> 0, pos |-> 1,
            carried |-> NoToken, first_word |-> TRUE, cfg |-> UniformSpaceConfig]

IdleMeasurement == [width |-> 0, trailing_space_width |-> 0, space_count |-> 0,
                    last_line |-> TRUE, carried |-> NoToken, pos |-> 1]

\* the style of the text box: its text colour
BaseStyle == "default"

\* Sgr::apply of ChangeTextColor
SgrApply(st) == "green"

\* `let style = &mut self.style.clone();`
CloneStyle(st) == st

\* draw changes the style of the text box itself
StyleAfterDrawShared(caller, scratch) == scratch

\* the style of the text box when draw returns: the scratch clone is
\* dropped
StyleAfterDraw(caller, scratch) == caller

\* H::calculate_displayed_row_range(&cursor).count(), in line steps: the
\* rows of the line at y that lie in the box
DisplayedRows(y) == IF y < boxHeight THEN 1 ELSE 0

\* the elements RenderElementHandler hands to the character renderer
IsDisplayCall(e) == e.e \in {"Space", "Chars", "Hyphen"}

\* RenderElementHandler: the pen after the element
HandlerPos(p, e) ==
    IF IsDisplayCall(e) THEN p + ElemWidth(e)
    ELSE IF e.e = "Move" THEN p + e.a
    ELSE p

\* the handlers' sgr()
HandlerStyle(st, e) == IF e.e = "Sgr" THEN SgrApply(st) ELSE st

\* the loop stops with a token still in the carry slot
LoopConditionParserOnly(carried_token, p) == ~ParserIsEmpty(text, p)

\* `while carried.is_some() || !parser.is_empty()`
LoopCondition(carried_token, p) ==
    carried_token.k # "None" \/ ~ParserIsEmpty(text, p)

\* no space configuration, escape sequence or character is worked on
IdleSc == [cfg0 |-> UniformSpaceConfig, cfg |-> UniformSpaceConfig,
           widths |-> <<>>, peeks |-> <<>>, n |-> 0, max_width |-> 0,
           measured |-> <<0, 0>>, done |-> FALSE]
IdleAnsi == [input |-> <<>>, checks |-> FALSE, st |-> "idle",
             tok |-> NoColour, pos |-> 1]
IdleCi == [rows |-> <<0, 0>>, underline |-> FALSE, strikethrough |-> FALSE,
           character |-> {}, background |-> FALSE,
           char_walk |-> <<0, 0>>, max_coordinates |-> <<0, 0>>,
           pixels |-> <<>>, done |-> FALSE]
UnitsIdle == sc = IdleSc /\ ansi = IdleAnsi /\ ci = IdleCi

\* no layout is kept from an earlier draw
NoLayout == [text |-> <<>>, lines |-> <<>>]

\* the families of inputs of a draw: texts of the code points in alphabet,
\* at most n long, drawn with one of the alignments into a box heights
\* line steps high, once or twice
Families ==
    {[alphabet |-> FullAlphabet, n |-> MaxLen,
      alignments |-> {"Left", "Right", "Center"},
      heights |-> {MaxLines}, redraws |-> {FALSE}],
     [alphabet |-> JustifiedAlphabet, n |-> MaxLenJ,
      alignments |-> {"Justified"},
      heights |-> {MaxLines}, redraws |-> {FALSE}],
     [alphabet |-> HyphenAlphabet, n |-> MaxLenH,
      alignments |-> {"Left", "Right", "Center"},
      heights |-> {MaxLines}, redraws |-> {FALSE}],
     [alphabet |-> AnsiAlphabet, n |-> MaxLenA,
      alignments |-> {"Left"},
      heights |-> {MaxLines}, redraws |-> {TRUE}],
     [alphabet |-> BoxAlphabet, n |-> MaxLenB,
      alignments |-> {"Left", "Right", "Center"},
      heights |-> 0..2, redraws |-> {TRUE}],
     [alphabet |-> BoxAlphabet \ {"E"}, n |-> MaxLenB,
      alignments |-> {"Justified"},
      heights |-> 0..2, redraws |-> {TRUE}]}

\* the locals of draw before its loop
DrawSetUp ==
    /\ pc = "loop"
    /\ parser = 1
    /\ carried = NoToken
    /\ cursorY = 0
    /\ lep = IdleLep
    /\ lm = IdleMeasurement
    /\ left = 0
    /\ config = UniformSpaceConfig
    /\ elems = <<>>
    /\ lines = <<>>
    /\ iters = 0
    /\ penX = 0
    /\ calls = 0
    /\ displayErr = FALSE
    /\ screen = <<>>

Init ==
    /\ \E f \in Families :
          /\ alignment \in f.alignments
          /\ \E k \in 0..f.n : text \in [1..k -> f.alphabet]
          /\ boxHeight \in f.heights
          /\ redraw \in f.redraws
    /\ lineWidth \in 0..MaxWidth
    /\ callerStyle = BaseStyle
    /\ style = CloneStyle(callerStyle)
    /\ DrawSetUp
    /\ run = 1
    /\ screen1 = <<>>
    /\ first = NoLayout
    /\ UnitsIdle
    /\ tokens = <<>>
    /\ peeked = [valid |-> FALSE, tok |-> NoToken]

\* Cursor::new_line, y counted in line steps (line height + line spacing)
new_line(y) == y + 1

\* the driver moves down after every line, carriage return or not
AfterLineAlways(y, carried_token) == new_line(y)

\* `if carried != Some(Token::CarriageReturn) { cursor.new_line(); }`
AfterLine(y, carried_token) ==
    IF carried_token # CarriageReturn THEN new_line(y) ELSE y

\* the loop condition holds and StyledLineRenderer::draw is entered.  A
\* clipped display of height 0: the element parser is created at column 0
\* with uniform spaces.  Otherwise: the measure pass, place_line, and the
\* element parser of the render pass created at the left offset.
StartLine ==
    /\ pc = "loop"
    /\ LoopCondition(carried, parser)
    /\ Len(lines) < MaxLines
    /\ IF DisplayedRows(cursorY) = 0
       THEN /\ lm' = IdleMeasurement
            /\ left' = 0
            /\ config' = UniformSpaceConfig
            /\ lep' = LepNew(parser, lineWidth, 0, UniformSpaceConfig, carried)
       ELSE /\ lm' = measure_line(parser, carried, lineWidth)
            /\ \E placed \in {place_line(parser, carried, lineWidth, lm')} :
                  /\ left' = placed.left
                  /\ config' = placed.cfg
                  /\ lep' = LepNew(parser, lineWidth, placed.left, placed.cfg,
                                   carried)
    /\ penX' = left'
    /\ elems' = <<>>
    /\ iters' = 0
    /\ pc' = "line"
    /\ UNCHANGED <<parser, carried, cursorY, lines, style>>
    /\ UNCHANGED <<boxVars, displayVars, callerStyle, run, screen1, first, parserVars,
                   unitVars>>

\* the element next() returns reaches the display target
ReachesDisplay(e) == DisplayedRows(cursorY) > 0 /\ IsDisplayCall(e)

\* one call of next() by process() that returns an element, and the
\* handler's call for it: RenderElementHandler draws it, or
\* StyleOnlyRenderElementHandler on a line outside the box
NextElement ==
    /\ pc = "line"
    /\ \E r \in {LepNext(lep)} :
          /\ r.out # NoElement
          /\ lep' = r.s
          /\ elems' = Append(elems, r.out)
          /\ iters' = r.rounds
          /\ style' = HandlerStyle(style, r.out)
          /\ IF ReachesDisplay(r.out)
             THEN /\ calls' = calls + 1
                  /\ screen' = Append(screen,
                         [y |-> cursorY, x |-> penX, e |-> r.out,
                          style |-> style])
             ELSE UNCHANGED <<calls, screen>>
          /\ penX' = IF DisplayedRows(cursorY) > 0 THEN HandlerPos(penX, r.out)
                     ELSE penX
    /\ UNCHANGED <<pc, parser, carried, cursorY, lm, left, config, lines>>
    /\ UNCHANGED <<boxVars, displayErr, callerStyle, run, screen1, first, parserVars,
                   unitVars>>

\* the display target returns an error and the draw goes on as if it had
\* not
DisplayErrorSwallowed ==
    /\ pc = "line"
    /\ \E r \in {LepNext(lep)} :
          /\ ReachesDisplay(r.out)
          /\ lep' = r.s
          /\ elems' = Append(elems, r.out)
          /\ iters' = r.rounds
    /\ calls' = calls + 1
    /\ displayErr' = TRUE
    /\ UNCHANGED <<pc, parser, carried, cursorY, lm, left, config, lines,
                   style, penX>>
    /\ UNCHANGED <<boxVars, screen, callerStyle, run, screen1, first, parserVars,
                   unitVars>>

\* the display target returns an error to the handler's call: process()
\* returns it, and the `?` of StyledLineRenderer::draw and of
\* StyledTextBox::draw return it to the caller
DisplayError ==
    /\ pc = "line"
    /\ \E r \in {LepNext(lep)} : ReachesDisplay(r.out)
    /\ calls' = calls + 1
    /\ displayErr' = TRUE
    /\ pc' = "error"
    /\ UNCHANGED <<parser, carried, cursorY, lep, lm, left, config, elems,
                   lines, iters, style, penX>>
    /\ UNCHANGED <<boxVars, screen, callerStyle, run, screen1, first, parserVars,
                   unitVars>>

\* next() returns None: process() returns the carried token, draw stores it
\* and the driver moves to the next line unless the line ended on a
\* carriage return
EndLine ==
    /\ pc = "line"
    /\ \E r \in {LepNext(lep)} :
          /\ r.out = NoElement
          /\ lep' = r.s
          /\ iters' = r.rounds
          /\ carried' = r.s.carried
          /\ parser' = r.s.pos
          /\ cursorY' = AfterLine(cursorY, r.s.carried)
          /\ lines' = Append(lines,
                 [left |-> left, elems |-> elems, cfg |-> config,
                  start |-> parser, carriedIn |-> carried,
                  end |-> r.s.pos, carriedOut |-> r.s.carried,
                  endX |-> r.s.x, y |-> cursorY, lm |-> lm,
                  rows |-> DisplayedRows(cursorY)])
    /\ pc' = "loop"
    /\ UNCHANGED <<lm, left, config, elems, style, penX>>
    /\ UNCHANGED <<boxVars, displayVars, callerStyle, run, screen1, first, parserVars,
                   unitVars>>

\* the loop condition is false: draw returns Ok(())
Finish ==
    /\ pc = "loop"
    /\ ~LoopCondition(carried, parser)
    /\ pc' = "done"
    /\ callerStyle' = StyleAfterDraw(callerStyle, style)
    /\ UNCHANGED <<parser, carried, cursorY, lep, lm, left, config, elems,
                   lines, iters, style, penX>>
    /\ UNCHANGED <<boxVars, displayVars, run, screen1, first, parserVars,
                   unitVars>>

\* the caller draws the same text box once more, to a fresh display
Redraw ==
    /\ pc = "done"
    /\ redraw /\ run = 1
    /\ run' = 2
    /\ screen1' = screen
    /\ style' = CloneStyle(callerStyle)
    /\ pc' = "loop"
    /\ parser' = 1
    /\ carried' = NoToken
    /\ cursorY' = 0
    /\ lep' = IdleLep
    /\ lm' = IdleMeasurement
    /\ left' = 0
    /\ config' = UniformSpaceConfig
    /\ elems' = <<>>
    /\ lines' = <<>>
    /\ iters' = 0
    /\ penX' = 0
    /\ calls' = 0
    /\ displayErr' = FALSE
    /\ screen' = <<>>
    /\ UNCHANGED <<boxVars, callerStyle, first, parserVars,
                   unitVars>>

Next ==
    \/ StartLine
    \/ NextElement
    \/ DisplayError
    \/ EndLine
    \/ Finish
    \/ Redraw

Spec == Init /\ [][Next]_vars

----------------------------------------------------------------------------
(* A text box laid out twice: as it is, and with every zero width space    *)
(* replaced by a space and every SGR sequence taken out                    *)

\* the words of at most MaxWord word characters
Words == UNION {[1..k -> {"a", "_"}] : k \in 1..MaxWord}

RECURSIVE PlainVariant(_)
\* the text with U+0020 for every U+200B and without its SGR sequences
PlainVariant(t) ==
    IF t = <<>> THEN <<>>
    ELSE IF Head(t) = "Z" THEN <<" ">> \o PlainVariant(Tail(t))
    ELSE IF Head(t) = "E" THEN PlainVariant(Tail(t))
    ELSE <<Head(t)>> \o PlainVariant(Tail(t))

\* two words with a zero width space between them, or a text of words,
\* spaces and SGR sequences
WrapInit ==
    /\ \/ \E w1 \in Words : \E w2 \in Words : text = w1 \o <<"Z">> \o w2
       \/ /\ \E k \in 1..MaxLenE : text \in [1..k -> {"a", " ", "E"}]
          /\ \E i \in 1..Len(text) : text[i] = "E"
    /\ alignment \in {"Left", "Right", "Center"}
    /\ lineWidth \in 0..MaxWidth
    /\ boxHeight = MaxLines
    /\ redraw = FALSE
    /\ callerStyle = BaseStyle
    /\ style = CloneStyle(callerStyle)
    /\ DrawSetUp
    /\ run = 1
    /\ screen1 = <<>>
    /\ first = NoLayout
    /\ UnitsIdle
    /\ tokens = <<>>
    /\ peeked = [valid |-> FALSE, tok |-> NoToken]

\* the draw has returned: the text box is given the plain variant of its
\* text and drawn again, with the same style, to a fresh display
Relayout ==
    /\ pc = "done"
    /\ run = 1
    /\ run' = 2
    /\ first' = [text |-> text, lines |-> lines]
    /\ text' = PlainVariant(text)
    /\ style' = CloneStyle(callerStyle)
    /\ pc' = "loop"
    /\ parser' = 1
    /\ carried' = NoToken
    /\ cursorY' = 0
    /\ lep' = IdleLep
    /\ lm' = IdleMeasurement
    /\ left' = 0
    /\ config' = UniformSpaceConfig
    /\ elems' = <<>>
    /\ lines' = <<>>
    /\ iters' = 0
    /\ penX' = 0
    /\ calls' = 0
    /\ displayErr' = FALSE
    /\ screen' = <<>>
    /\ UNCHANGED <<lineWidth, alignment, boxHeight, redraw, callerStyle,
                   screen1, parserVars, unitVars>>

WrapNext ==
    \/ StartLine
    \/ NextElement
    \/ EndLine
    \/ Finish
    \/ Relayout

WrapSpec == WrapInit /\ [][WrapNext]_vars

----------------------------------------------------------------------------
(* A space configuration driven on its own: JustifiedSpaceConfig::new,     *)
(* then next_space_width() and peek_next_width() in any order; and one     *)
(* call of FontExt::max_space_width                                        *)

\* no text box is drawn
NoDraw ==
    /\ text = <<>>
    /\ parser = 1
    /\ tokens = <<>>
    /\ peeked = [valid |-> FALSE, tok |-> NoToken]
    /\ lineWidth = 0
    /\ alignment = "Left"
    /\ boxHeight = 0
    /\ redraw = FALSE
    /\ callerStyle = BaseStyle
    /\ style = BaseStyle
    /\ carried = NoToken
    /\ cursorY = 0
    /\ lep = IdleLep
    /\ lm = IdleMeasurement
    /\ left = 0
    /\ config = UniformSpaceConfig
    /\ elems = <<>>
    /\ lines = <<>>
    /\ iters = 0
    /\ penX = 0
    /\ calls = 0
    /\ displayErr = FALSE
    /\ screen = <<>>
    /\ run = 1
    /\ screen1 = <<>>
    /\ first = NoLayout

\* JustifiedSpaceConfig::new(space_width, extra_pixel_count), and the
\* arguments of max_space_width
SpaceInit ==
    /\ NoDraw
    /\ pc = "spaces"
    /\ \E b \in 1..MaxBase, e \in 0..MaxExtras,
          n \in 0..MaxSpaces, m \in 0..MaxMeasure :
          sc = [IdleSc EXCEPT !.cfg0 = SpaceConfigNew(b, e),
                              !.cfg = SpaceConfigNew(b, e),
                              !.n = n, !.max_width = m]
    /\ ansi = IdleAnsi
    /\ ci = IdleCi

\* next_space_width(): one space is taken, its width is kept
NextSpace ==
    /\ pc = "spaces"
    /\ Len(sc.widths) < MaxSpaces
    /\ \E r \in {next_space_width(sc.cfg)} :
          sc' = [sc EXCEPT !.cfg = r.cfg, !.widths = Append(@, r.w)]
    /\ UNCHANGED <<boxVars, drawVars, displayVars, callerStyle, run, screen1,
                   first, parserVars, ansi, ci>>

\* peek_next_width(k): the width returned is kept, with the number of
\* spaces taken before the call
PeekSpaces ==
    /\ pc = "spaces"
    /\ sc.peeks = <<>>
    /\ \E k \in 0..MaxSpaces :
          sc' = [sc EXCEPT !.peeks = Append(@,
                    [k |-> k, w |-> peek_next_width(sc.cfg, k),
                     at |-> Len(sc.widths)])]
    /\ UNCHANGED <<boxVars, drawVars, displayVars, callerStyle, run, screen1,
                   first, parserVars, ansi, ci>>

\* max_space_width(n, max_width)
MeasureSpaces ==
    /\ pc = "spaces"
    /\ ~sc.done
    /\ sc' = [sc EXCEPT !.measured = max_space_width(sc.n, sc.max_width),
                        !.done = TRUE]
    /\ UNCHANGED <<boxVars, drawVars, displayVars, callerStyle, run, screen1,
                   first, parserVars, ansi, ci>>

SpaceNext == NextSpace \/ PeekSpaces \/ MeasureSpaces

SpaceSpec == SpaceInit /\ [][SpaceNext]_vars

----------------------------------------------------------------------------
(* An escape sequence read on its own: try_parse_escape_seq on the code    *)
(* points after the escape character; the text box that holds the sequence *)
(* and a word after it is drawn when the sequence is a token               *)

\* what follows the first parameter of the sequence
Tails ==
    {<<"m">>, <<>>, <<"a">>, <<"0", "m">>,
     <<";", "5", ";", "1", "0", "m">>,
     <<";", "5", ";", "3", "0", "0", "m">>,
     <<";", "2", ";", "1", ";", "2", ";", "3", "m">>,
     <<";", "7", ";", "1", "m">>}

\* the inputs: a second escape character, a code point that starts no
\* sequence, nothing, and `[` with a parameter of up to MaxDigits digits
AnsiInputs ==
    {<<"ESC">>, <<"a">>, <<>>}
        \cup {<<"[">> \o ds \o tl :
                 ds \in UNION {[1..k -> Digits] : k \in 0..MaxDigits},
                 tl \in Tails}

\* the sequence is about to be read; checks: the build checks arithmetic
\* for overflow
AnsiInit ==
    /\ text = <<>>
    /\ alignment = "Left"
    /\ lineWidth = MaxWidth
    /\ boxHeight = MaxLines
    /\ redraw = FALSE
    /\ callerStyle = BaseStyle
    /\ style = CloneStyle(callerStyle)
    /\ pc = "escape"
    /\ parser = 1
    /\ carried = NoToken
    /\ cursorY = 0
    /\ lep = IdleLep
    /\ lm = IdleMeasurement
    /\ left = 0
    /\ config = UniformSpaceConfig
    /\ elems = <<>>
    /\ lines = <<>>
    /\ iters = 0
    /\ penX = 0
    /\ calls = 0
    /\ displayErr = FALSE
    /\ screen = <<>>
    /\ run = 1
    /\ screen1 = <<>>
    /\ first = NoLayout
    /\ tokens = <<>>
    /\ peeked = [valid |-> FALSE, tok |-> NoToken]
    /\ \E cs \in AnsiInputs, checks \in BOOLEAN :
          ansi = [IdleAnsi EXCEPT !.input = cs, !.checks = checks,
                                  !.st = "start"]
    /\ sc = IdleSc
    /\ ci = IdleCi

\* try_parse_escape_seq returns a colour token: the text box with the
\* sequence and a word after it is drawn
EscapeParsed ==
    /\ pc = "escape"
    /\ \E r \in {try_parse_escape_seq(ansi.input, 1, ansi.checks)} :
          /\ r.some /\ r.v # EscapeToken
          /\ ansi' = [ansi EXCEPT !.st = "parsed", !.tok = r.v, !.pos = r.pos]
    /\ text' = <<"E", "a">>
    /\ pc' = "loop"
    /\ UNCHANGED <<lineWidth, alignment, boxHeight, redraw, parser, carried,
                   cursorY, lep, lm, left, config, elems, lines, iters,
                   style, penX, displayVars, callerStyle, run, screen1,
                   first, parserVars, sc, ci>>

\* try_parse_escape_seq returns Token::Escape or None: nothing of a
\* rejected sequence is read
EscapeRejected ==
    /\ pc = "escape"
    /\ \E r \in {try_parse_escape_seq(ansi.input, 1, ansi.checks)} :
          /\ ~r.panic
          /\ r.some => r.v = EscapeToken
          /\ ansi' = [ansi EXCEPT !.st = IF r.some THEN "parsed"
                                         ELSE "rejected",
                                  !.tok = IF r.some THEN r.v ELSE NoColour,
                                  !.pos = r.pos]
    /\ pc' = "read"
    /\ UNCHANGED <<boxVars, parser, carried, cursorY, lep, lm, left, config,
                   elems, lines, iters, style, penX, displayVars,
                   callerStyle, run, screen1, first, parserVars, sc, ci>>

\* try_parse_escape_seq panics: the arithmetic of a parameter overflowed
EscapePanic ==
    /\ pc = "escape"
    /\ \E r \in {try_parse_escape_seq(ansi.input, 1, ansi.checks)} :
          /\ r.panic
          /\ ansi' = [ansi EXCEPT !.st = "panicked"]
    /\ pc' = "panicked"
    /\ UNCHANGED <<boxVars, parser, carried, cursorY, lep, lm, left, config,
                   elems, lines, iters, style, penX, displayVars,
                   callerStyle, run, screen1, first, parserVars, sc, ci>>

AnsiNext ==
    \/ EscapeParsed
    \/ EscapeRejected
    \/ EscapePanic
    \/ StartLine
    \/ NextElement
    \/ EndLine
    \/ Finish

AnsiSpec == AnsiInit /\ [][AnsiNext]_vars

----------------------------------------------------------------------------
(* A character iterator driven on its own (rendering/character.rs):        *)
(* CharacterIterator::new, then next() until it returns None.  A point is  *)
(* <<x, y>>; a glyph is the set of its foreground points; the style has a  *)
(* text colour, and a background colour or none                            *)

strikethrough_pos == CharHeight \div 2

\* the glyphs: blank, solid, and one with a point in every row
Glyphs ==
    {{}, (0..(GlyphWidth - 1)) \X (0..(CharHeight - 1)),
     {<<y % GlyphWidth, y>> : y \in 0..(CharHeight - 1)}}

\* CharacterIterator::new
CharacterIteratorNew(character, rows, background, underline, strikethrough) ==
    LET Min(a, b) == IF a < b THEN a ELSE b
        max_height == Min(CharHeight, rows[2])
    IN [IdleCi EXCEPT
            !.character = character, !.rows = rows,
            !.background = background,
            !.underline = underline, !.strikethrough = strikethrough,
            !.char_walk = <<0, rows[1]>>,
            !.max_coordinates =
                <<GlyphWidth - 1,
                  IF underline /\ rows[2] = max_height
                  THEN max_height + 1 ELSE max_height>>]

\* Glyph::point
point(character, p) == p \in character

RECURSIVE CharacterIteratorNext(_)
\* CharacterIterator::next: the iterator after the call and the pixel
\* returned, some = FALSE for None; a point without a colour is skipped
CharacterIteratorNext(c) ==
    LET pos == c.char_walk
        walked == [c EXCEPT !.char_walk =
                       IF pos[1] < c.max_coordinates[1]
                       THEN <<pos[1] + 1, pos[2]>>
                       ELSE <<0, pos[2] + 1>>]
        is_underline == c.underline /\ pos[2] = CharHeight
        is_strikethrough == c.strikethrough /\ pos[2] = strikethrough_pos
        text_color == is_underline \/ is_strikethrough
                          \/ point(c.character, pos)
    IN IF c.char_walk[2] >= c.max_coordinates[2]
       THEN [c |-> c, some |-> FALSE, p |-> <<0, 0>>, text |-> FALSE]
       ELSE IF text_color \/ c.background
       THEN [c |-> walked, some |-> TRUE, p |-> pos, text |-> text_color]
       ELSE CharacterIteratorNext(walked)

CharInit ==
    /\ NoDraw
    /\ pc = "pixels"
    /\ \E character \in Glyphs, start \in 0..CharHeight, end \in 0..MaxRow,
          background \in BOOLEAN, underline \in BOOLEAN,
          strikethrough \in BOOLEAN :
          ci = CharacterIteratorNew(character, <<start, end>>, background,
                                    underline, strikethrough)
    /\ sc = IdleSc
    /\ ansi = IdleAnsi

\* next() returns a pixel
NextPixel ==
    /\ pc = "pixels"
    /\ ~ci.done
    /\ \E r \in {CharacterIteratorNext(ci)} :
          /\ r.some
          /\ ci' = [r.c EXCEPT !.pixels =
                        Append(@, [p |-> r.p, text |-> r.text])]
    /\ UNCHANGED <<boxVars, drawVars, displayVars, callerStyle, run, screen1,
                   first, parserVars, sc, ansi>>

\* next() returns None
NoPixel ==
    /\ pc = "pixels"
    /\ ~ci.done
    /\ \E r \in {CharacterIteratorNext(ci)} :
          /\ ~r.some
          /\ ci' = [r.c EXCEPT !.done = TRUE]
    /\ UNCHANGED <<boxVars, drawVars, displayVars, callerStyle, run, screen1,
                   first, parserVars, sc, ansi>>

CharNext == NextPixel \/ NoPixel

CharSpec == CharInit /\ [][CharNext]_vars

----------------------------------------------------------------------------
(* A parser driven on its own: Parser::parse, then next() and peek() in    *)
(* any order                                                               *)

\* Parser::parse(text)
ParserInit ==
    /\ \E k \in 0..MaxLenP : text \in [1..k -> ParserAlphabet]
    /\ pc = "parse"
    /\ parser = 1
    /\ tokens = <<>>
    /\ peeked = [valid |-> FALSE, tok |-> NoToken]
    /\ lineWidth = 0
    /\ alignment = "Left"
    /\ boxHeight = 0
    /\ redraw = FALSE
    /\ callerStyle = BaseStyle
    /\ style = BaseStyle
    /\ carried = NoToken
    /\ cursorY = 0
    /\ lep = IdleLep
    /\ lm = IdleMeasurement
    /\ left = 0
    /\ config = UniformSpaceConfig
    /\ elems = <<>>
    /\ lines = <<>>
    /\ iters = 0
    /\ penX = 0
    /\ calls = 0
    /\ displayErr = FALSE
    /\ screen = <<>>
    /\ run = 1
    /\ screen1 = <<>>
    /\ first = NoLayout
    /\ UnitsIdle

\* next(): the token returned, with the positions it was read from; a
\* None is followed once
ParserStep ==
    /\ pc = "parse"
    /\ IF tokens = <<>> THEN TRUE ELSE tokens[Len(tokens)].tok # NoToken
    /\ \E nx \in {ParserNext(text, parser)} :
          /\ tokens' = Append(tokens,
                 [tok |-> nx.tok, from |-> parser, to |-> nx.pos])
          /\ parser' = nx.pos
    /\ peeked' = [valid |-> FALSE, tok |-> NoToken]
    /\ UNCHANGED <<boxVars, pc, carried, cursorY, lep, lm, left, config,
                   elems, lines, iters, style, penX, displayVars,
                   callerStyle, run, screen1, first, unitVars>>

\* peek()
ParserPeek ==
    /\ pc = "parse"
    /\ \E pk \in {Peek(text, parser)} :
          /\ peeked' = [valid |-> TRUE, tok |-> pk.tok]
          /\ parser' = pk.pos
    /\ UNCHANGED <<boxVars, pc, carried, cursorY, lep, lm, left, config,
                   elems, lines, iters, style, penX, displayVars,
                   callerStyle, run, screen1, first,
                   tokens, unitVars>>

ParserNextStep == ParserStep \/ ParserPeek

ParserSpec == ParserInit /\ [][ParserNextStep]_vars

----------------------------------------------------------------------------
(* Properties *)

\* the word characters of the text
HasWordChar == \E i \in 1..Len(text) : text[i] = "a"

\* C1: draw terminates for every text, width and alignment.  Every step of
\* draw starts a line pass, returns an element of the line or ends the line
\* pass; the line passes of a draw, the elements of a line and the rounds
\* of the loop of one next() call are bounded by the length of the text, so
\* no behaviour goes on for ever, and the driver is never left in its loop
\* with work it does not take up.
C1_Terminates ==
    /\ Len(lines) <= 2 * Len(text) + 1
    /\ Len(elems) <= 2 * Len(text) + 1
    /\ iters <= Len(text) + 2
    /\ pc = "loop" /\ (carried.k # "None" \/ ~ParserIsEmpty(text, parser))
         => Len(lines) < MaxLines

\* a draw that returned for a box narrower than one character and a text
\* with a word in it, after more than one line pass
C1_Witness ==
    /\ pc = "done"
    /\ lineWidth < CharWidth
    /\ HasWordChar
    /\ Len(lines) >= 2

\* the line passes that have ended
Passes == 1..Len(lines)

\* C2: on every line the measure pass and the render pass consume the same
\* input and leave the same carried token, and where the render pass uses
\* the uniform space configuration of the measure pass the rendered
\* elements advance by the measured width (trailing spaces included).
C2_MeasureRenderAgree ==
    \A i \in Passes :
        lines[i].rows > 0 =>
        /\ lines[i].lm.pos = lines[i].end
        /\ lines[i].lm.carried = lines[i].carriedOut
        /\ lines[i].cfg = UniformSpaceConfig
             => SumWidth(lines[i].elems)
                  = lines[i].lm.width + lines[i].lm.trailing_space_width

\* C3: on every line, at every moment of the render pass, the left offset
\* plus the widths of the elements emitted so far is at most the line width.
C3_NoOverflow ==
    /\ left + SumWidth(elems) <= lineWidth
    /\ \A i \in Passes :
          lines[i].left + SumWidth(lines[i].elems) <= lineWidth

\* the number of PrintedCharacters slices of the ended line passes that
\* hold position i of the text
Emitted(i) ==
    Cardinality({le \in Passes \X (1..(2 * Len(text) + 1)) :
                    /\ le[2] <= Len(lines[le[1]].elems)
                    /\ lines[le[1]].elems[le[2]].e = "Chars"
                    /\ lines[le[1]].elems[le[2]].a <= i
                    /\ i < lines[le[1]].elems[le[2]].b})

\* C4: when draw has returned for a box at least one character wide, every
\* printable word character of the text is in exactly one emitted
\* PrintedCharacters slice: none is dropped, none is emitted twice.
C4_Coverage ==
    pc = "done" /\ lineWidth >= CharWidth
        => \A i \in 1..Len(text) : text[i] = "a" => Emitted(i) = 1

\* the start of the Word token that holds position i
WordStartOf(i) ==
    CHOOSE j \in 1..i :
        /\ \A k \in j..i : is_word_char(text[k])
        /\ j = 1 \/ ~is_word_char(text[j - 1])

\* the line pass l ended in the middle of a Word token: it carries the rest
\* of a word whose first part was emitted
EndsInsideWord(l) ==
    /\ l.carriedOut.k = "Word"
    /\ l.carriedOut.a > 1
    /\ is_word_char(text[l.carriedOut.a - 1])

\* the position of the first character of the split word that the line
\* pass l had to place
SplitFrom(l) ==
    IF l.carriedIn.k = "Word"
       /\ l.carriedIn.a >= WordStartOf(l.carriedOut.a - 1)
    THEN l.carriedIn.a
    ELSE WordStartOf(l.carriedOut.a - 1)

\* the characters an element places on the line: a tab counts as one
Placed(e) ==
    IF e.e = "Chars" THEN e.b - e.a
    ELSE IF e.e = "Space" THEN (IF e.b = 0 THEN 1 ELSE e.b)
    ELSE 1

RECURSIVE SumPlaced(_)
SumPlaced(es) == IF es = <<>> THEN 0 ELSE Placed(Head(es)) + SumPlaced(Tail(es))

\* C5: a line pass that ends in the middle of a word has placed nothing but
\* that word's characters: the word was first on the line.
C5_SplitOnlyFirstWord ==
    \A i \in Passes :
        EndsInsideWord(lines[i])
            => SumPlaced(lines[i].elems)
                 = lines[i].carriedOut.a - SplitFrom(lines[i])

\* the token a line pass starts with
FirstToken(l) ==
    IF l.carriedIn.k \in {"None", "NewLine", "CarriageReturn", "Break"}
    THEN ParserNext(text, l.start).tok
    ELSE l.carriedIn

RECURSIVE SpelledTo(_, _)
\* the position reached when the elements es spell the text from pos on,
\* a Space standing for one no-break space; 0 when they do not
SpelledTo(es, pos) ==
    IF es = <<>> THEN pos
    ELSE IF Head(es).e = "Chars" /\ Head(es).a = pos
    THEN SpelledTo(Tail(es), Head(es).b)
    ELSE IF Head(es).e = "Space" /\ Head(es).b = 1 /\ pos <= Len(text)
            /\ text[pos] = SPEC_CHAR_NBSP
    THEN SpelledTo(Tail(es), pos + 1)
    ELSE 0

\* the line pass l starts with a word that is wider than the room of the
\* line, and the room holds at least one character
FirstWordTooWide(l) ==
    /\ FirstToken(l).k = "Word"
    /\ l.cfg = UniformSpaceConfig
    /\ l.left + CharWidth <= lineWidth
    /\ l.left + str_width(SliceChars(text, FirstToken(l))) > lineWidth

\* C6: a line pass whose first word is wider than the line emits the
\* longest prefix of the word that fits and carries the rest of it.
C6_FirstWordPrefix ==
    \A i \in Passes :
        FirstWordTooWide(lines[i])
            => /\ lines[i].carriedOut.k = "Word"
               /\ lines[i].carriedOut.b = FirstToken(lines[i]).b
               /\ lines[i].carriedOut.a > FirstToken(lines[i]).a
               /\ lines[i].carriedOut.a < lines[i].carriedOut.b
               /\ SpelledTo(lines[i].elems, FirstToken(lines[i]).a)
                    = lines[i].carriedOut.a
               /\ lines[i].left + SumWidth(lines[i].elems) <= lineWidth
               /\ lines[i].left + SumWidth(lines[i].elems) + CharWidth
                    > lineWidth

\* the element parser of the render pass is about to process the
\* Break(Some("-")) of a soft hyphen
AtSoftHyphen == pc = "line" /\ lep.st = "ProcessToken" /\ lep.tk = BreakHyphen

\* the token after the soft hyphen, and the one after that
AfterHyphen == ParserNext(text, lep.pos)
AfterNextPart == ParserNext(text, AfterHyphen.pos)

\* a word part follows the soft hyphen
NextPartFollows == AfterHyphen.tok.k = "Word"

\* the width of the next word part
NextPartWidth == str_width(SliceChars(text, AfterHyphen.tok))

\* the width of the next word part and, when a soft hyphen follows it
\* directly, of that hyphen's glyph
NextPartReserve ==
    NextPartWidth
      + (IF AfterNextPart.tok = BreakHyphen THEN str_width(<<"-">>) ELSE 0)

\* the step discards the break: the next part continues on the same line
BreakDiscarded ==
    /\ pc' = "line"
    /\ Len(elems') = Len(elems) + 1
    /\ SubSeq(elems', 1, Len(elems)) = elems
    /\ \/ /\ elems'[Len(elems')].e = "Chars"
          /\ elems'[Len(elems')].a = lep.pos
       \/ /\ elems'[Len(elems')].e = "Space"
          /\ elems'[Len(elems')].b = 1
          /\ text[lep.pos] = SPEC_CHAR_NBSP

\* the step emits the hyphen as the last element of the line; the next part
\* is left to start the following line
HyphenEndsLine ==
    /\ elems' = Append(elems, PrintedCharacters(HyphenWord))
    /\ lep'.st = "Done"
    /\ lep'.carried = BreakNone
    /\ lep'.pos = lep.pos

\* the step ends the line with nothing emitted for the break and carries
\* the hyphen as a word; the parser stays before the next part
HyphenCarried ==
    /\ pc' = "loop"
    /\ elems' = elems
    /\ carried' = HyphenWord
    /\ parser' = lep.pos

SplitAtNbsp(l) ==
    /\ EndsInsideWord(l)
    /\ \/ text[l.carriedOut.a] = SPEC_CHAR_NBSP
       \/ text[l.carriedOut.a - 1] = SPEC_CHAR_NBSP

\* the width of the whole word the line pass l ended in
SplitWordWidth(l) ==
    (l.carriedOut.b - WordStartOf(l.carriedOut.a - 1)) * CharWidth

\* C8: no line pass ends at a no-break space inside a word that is no
\* wider than a full line.
C8_NbspNoWrap ==
    \A i \in Passes :
        ~(SplitAtNbsp(lines[i]) /\ SplitWordWidth(lines[i]) <= lineWidth)

\* the line pass l ended a paragraph: at a NewLine or at the end of input
EndsParagraph(l) ==
    \/ l.carriedOut = NewLine
    \/ l.carriedOut = NoToken /\ l.end > Len(text)

\* the walk of the Justified alignment stretched the line pass l
Stretched(l) ==
    /\ alignment = "Justified"
    /\ JustifiedNextLine(l.start, l.carriedIn, lineWidth).j.stretch_line
    /\ JustifiedNextLine(l.start, l.carriedIn, lineWidth).j
          .total_whitespace_count # 0

\* C9: on a stretched justified line that does not end a paragraph the
\* widths of the spaces and of the words add up to the line width.
C9_JustifiedExact ==
    \A i \in Passes :
        Stretched(lines[i]) /\ ~EndsParagraph(lines[i])
            => SumWidth(lines[i].elems) = lineWidth

\* C10: a justified line that ends a paragraph, or that has no whitespace
\* between words, is rendered with the uniform space configuration.
C10_LastLineUniform ==
    \A i \in Passes :
        /\ alignment = "Justified"
        /\ \/ EndsParagraph(lines[i])
           \/ SumCount(UpToLastPrinted(lines[i].elems)) = 0
        => lines[i].cfg = UniformSpaceConfig

\* C11: a line pass that ends on a CarriageReturn leaves the cursor's y as
\* it is, every other line ending moves y down by exactly one line step;
\* the line pass that follows starts at the y the driver left, at column 0
\* plus the left offset of its alignment (column 0 under Left), wherever
\* the line before it ended.
C11_CarriageReturn ==
    [][/\ pc = "line" /\ pc' = "loop"
          => cursorY' = IF carried' = CarriageReturn THEN cursorY
                        ELSE cursorY + 1
       /\ pc = "loop" /\ pc' = "line"
          => /\ cursorY' = cursorY
             /\ lep'.x = left'
             /\ alignment = "Left" => lep'.x = 0
             /\ Len(lines) > 0
                  => cursorY' = lines[Len(lines)].y
                        + (IF lines[Len(lines)].carriedOut = CarriageReturn
                           THEN 0 ELSE 1)]_vars

\* a line that ended on a carriage return to the right of column 0, and
\* the line drawn after it at the same y
C11_Witness ==
    \E i \in 1..Len(lines) - 1 :
        /\ lines[i].carriedOut = CarriageReturn
        /\ lines[i].endX > 0
        /\ lines[i + 1].y = lines[i].y
        /\ lines[i + 1].elems # <<>>

\* C12: when the display target returns an error, draw returns it at once.
\* The step in which the error is returned is a call to the display target
\* that ends the draw and changes nothing else: the element is not taken
\* from the element parser, no line is ended, the carry slot and the
\* driver's parser stay as they were.  After it nothing happens any more:
\* no element, no line, no call to the display target.
C12_ErrorStopsDraw ==
    /\ [](displayErr => pc = "error")
    /\ [][~displayErr /\ displayErr'
            => /\ pc' = "error"
               /\ calls' = calls + 1
               /\ UNCHANGED <<lep, elems, lines, parser, carried, cursorY,
                              style, screen>>]_vars
    /\ [][displayErr => UNCHANGED <<drawVars, displayVars>>]_vars

\* the display target has returned an error in the middle of the second
\* line, with elements of that line and input still to come
C12_Witness ==
    /\ displayErr
    /\ pc = "error"
    /\ Len(lines) >= 1
    /\ elems # <<>>
    /\ LepNext(lep).s.st # "Done"

\* C13: drawing leaves no state behind.  The style of the text box is the
\* same before and after every draw, whatever SGR sequences the text
\* holds, and a second draw of the same text box to a fresh display makes
\* the same calls to the display target, with the same styles at the same
\* places, as the first.
C13_Deterministic ==
    /\ callerStyle = BaseStyle
    /\ run = 2 => /\ Len(screen) <= Len(screen1)
                  /\ screen = SubSeq(screen1, 1, Len(screen))
    /\ run = 2 /\ pc = "done" => screen = screen1

\* a text box drawn twice whose text changes the colour between two of its
\* elements
C13_Witness ==
    /\ run = 2
    /\ pc = "done"
    /\ \E i, j \in 1..Len(screen) :
          /\ i < j
          /\ screen[i].style = BaseStyle
          /\ screen[j].style # BaseStyle

StyleOnlyPass ==
    Process(LepNew(parser, lineWidth, 0, UniformSpaceConfig, carried))

\* LineElementParser::process with RenderElementHandler, after the measure
\* pass and place_line
RenderPass ==
    LET Rendered(p) == Process(LepNew(parser, lineWidth, p.left, p.cfg, carried))
    IN Rendered(place_line(parser, carried, lineWidth,
                         measure_line(parser, carried, lineWidth)))

\* the SGR elements among es: the changes the handler applies to the style
SgrCount(es) == Cardinality({i \in 1..Len(es) : es[i].e = "Sgr"})

\* C20: for every line, the input consumed, the token left in the carry
\* slot and the SGR changes applied to the style are the same on the path
\* of a display of height zero and on the path of a display that has
\* rows.
C20_InvisibleInSync ==
    pc = "loop" /\ LoopCondition(carried, parser)
        => /\ StyleOnlyPass.s.pos = RenderPass.s.pos
           /\ StyleOnlyPass.s.carried = RenderPass.s.carried
           /\ SgrCount(StyleOnlyPass.elems) = SgrCount(RenderPass.elems)

----------------------------------------------------------------------------
(* Properties of the Whitespace arm of LineElementParser::next *)

\* the element parser of the line is about to process a Whitespace(n)
AtWhitespace ==
    pc = "line" /\ lep.st = "ProcessToken" /\ lep.tk.k = "Whitespace"

\* n, the width of the word that follows, and the round that processes
\* the token
WsCount == lep.tk.a
WsNextWord == next_word_width(lep)
WsRound == ProcessToken(lep, lep.tk)

\* the token comes after the first word of the line, and its n spaces
\* and the next word do not fit in what is left of the line
WsWouldWrap ==
    /\ ~lep.first_word
    /\ WsNextWord.some
    /\ ~fits_in_line(lep, peek_next_width(lep.cfg, WsCount) + WsNextWord.w)

\* the rest of the line from the state the element parser is in
RestOfLine == Process(lep)

\* C22: when a Whitespace(n) is processed after the first word of a line
\* and the n spaces and the next word do not fit in what is left of the
\* line, the line wraps there: the rest of the line has no printed
\* character and the parser is left before the next word.
C22_WhitespaceWraps ==
    AtWhitespace /\ WsWouldWrap
        => /\ RestOfLine.s.pos = lep.pos
           /\ \A i \in 1..Len(RestOfLine.elems) :
                 ~IsPrinted(RestOfLine.elems[i])

\* the line ends at the token with something left in the carry slot: the
\* token is the wrap point of the line
WsEndsLine == WsRound.s.st = "Done" /\ WsRound.s.carried # NoToken

\* the spaces of the token rendered on the line, and carried to the next
WsRendered == IF WsRound.out.e = "Space" THEN WsRound.out.b ELSE 0
WsCarried ==
    IF WsRound.s.carried.k = "Whitespace" THEN WsRound.s.carried.a ELSE 0

\* C23: under an alignment that renders ending spaces, when a Whitespace(n)
\* is the wrap point of a line, the spaces rendered on the line and the
\* spaces carried to the next add up to n - 1, and for n = 1 no space is
\* carried.
C23_OneSpaceEaten ==
    AtWhitespace /\ alignment = "Left" /\ WsEndsLine
        => /\ WsRendered + WsCarried = WsCount - 1
           /\ WsCount = 1 => WsRound.s.carried = BreakNone

\* the alignment has the spaces of the token rendered
WsRenders ==
    IF lep.first_word THEN alignment = "Left"
    ELSE IF WsNextWord.some THEN alignment = "Left" \/ ~WsWouldWrap
    ELSE alignment = "Left"

\* the spaces of the token that may be rendered: the wrap takes one
WsAsked == IF WsWouldWrap THEN WsCount - 1 ELSE WsCount

\* the largest k <= m whose width is at most what is left of the line
LargestFit(s, m) ==
    CHOOSE k \in 0..m :
        /\ peek_next_width(s.cfg, k) <= space(s)
        /\ \A j \in 0..m : peek_next_width(s.cfg, j) <= space(s) => j <= k

\* C24: the number of spaces rendered of a Whitespace token is the largest
\* k, not above the count that may be rendered, whose width under the
\* space configuration is at most the width left on the line; spaces as
\* wide as what is left are rendered in full.
C24_WidestSpaces ==
    AtWhitespace /\ WsRenders => WsRendered = LargestFit(lep, WsAsked)

\* a line that starts at the parser's position with Whitespace(n) in the
\* carry slot: the token is dropped
CarriedSpacesDropped(n) ==
    LET Dropped(s0, r) ==
            /\ s0.tk = Whitespace(n)
            /\ r.out = Continue
            /\ r.s = next_token(s0)
            /\ r.s.x = s0.x
        Started(s0) == Dropped(s0, ProcessToken(s0, s0.tk))
    IN Started(LepNew(parser, lineWidth, 0, UniformSpaceConfig, Whitespace(n)))

\* C25: under Right, Center and Justified a Whitespace token before the
\* first word of a line, carried or read from the parser, returns no
\* element, does not move the cursor and leaves nothing in the carry slot;
\* the line goes on with the next token, still before its first word.
C25_LeadingSpacesDropped ==
    /\ pc = "loop" /\ alignment \in {"Right", "Center", "Justified"}
          => \A n \in 1..MaxLen : CarriedSpacesDropped(n)
    /\ AtWhitespace /\ lep.first_word
                 /\ alignment \in {"Right", "Center", "Justified"}
        => /\ WsRound.out = Continue
           /\ WsRound.s.x = lep.x
           /\ WsRound.s.cfg = lep.cfg
           /\ WsRound.s.carried = NoToken
           /\ WsRound.s.first_word
           /\ WsRound.s.st = "Done" => ParserIsEmpty(text, lep.pos)

\* the second line of a draw starts with whitespace, under an alignment
\* that does not render starting spaces, and a word follows it
C25_Witness ==
    /\ AtWhitespace /\ lep.first_word
    /\ alignment \in {"Right", "Center", "Justified"}
    /\ elems = <<>>
    /\ Len(lines) >= 1
    /\ WsNextWord.some
    /\ lineWidth >= WsNextWord.w

----------------------------------------------------------------------------
(* Properties of the carry slot *)

\* the token the parser holds after the line pass l
TokenAfter(l) == ParserNext(text, l.end).tok

\* the line pass l starts with the glyph of the carried soft hyphen, and
\* the word part after the soft hyphen is what comes next: on the line
\* (a Space for a no-break space it starts with) when it fits there, else
\* carried whole to the line after
StartsWithHyphen(l, next) ==
    /\ l.carriedIn = HyphenWord
    /\ l.elems # <<>>
    /\ l.elems[1] = PrintedCharacters(HyphenWord)
    /\ next.k = "Word"
         => \/ /\ Len(l.elems) >= 2
               /\ l.elems[2].e = "Chars"
               /\ l.elems[2].a = next.a
            \/ /\ Len(l.elems) >= 2
               /\ l.elems[2].e = "Space" /\ l.elems[2].b = 1
               /\ text[next.a] = SPEC_CHAR_NBSP
            \/ /\ Len(l.elems) = 1
               /\ l.carriedOut = next

\* the element parser is about to process the Break of a soft hyphen
\* where the line has to be broken and the glyph does not fit: the line
\* ends with nothing emitted for it and Word(c) carried
GlyphCarried ==
    pc = "line" /\ lep.st = "ProcessToken" /\ lep.tk = BreakHyphen
        /\ WsNextWord.some /\ ~fits_in_line(lep, WsNextWord.w)
        /\ ~fits_in_line(lep, str_width(<<"-">>))
        => /\ RestOfLine.elems = <<>>
           /\ RestOfLine.s.carried = HyphenWord
           /\ RestOfLine.s.pos = lep.pos

\* in boxes at least min wide: a line pass that ends with Word(c) carried
\* had no room for c and is followed by a line pass that begins with c
\* and goes on with the next word part
GlyphStartsNextLine(min) ==
    \A i \in Passes :
        lines[i].carriedOut = HyphenWord /\ lineWidth >= min
            => /\ lines[i].left + SumWidth(lines[i].elems)
                     + str_width(<<"-">>) > lineWidth
               /\ i + 1 <= Len(lines)
                     => StartsWithHyphen(lines[i + 1], TokenAfter(lines[i]))
               /\ i = Len(lines) => pc # "done"

\* C26 as stated: when a line must be broken at a soft hyphen whose glyph
\* c does not fit, the line ends without c, Word(c) is carried and the
\* next line begins with PrintedCharacters(c) followed by the next word
\* part, in every box.
C26_AsStated == GlyphCarried /\ GlyphStartsNextLine(0)

\* C26: when a line must be broken at a soft hyphen whose glyph c does not
\* fit, the line ends without c and Word(c) is carried; in a box at least
\* one character wide the next line begins with PrintedCharacters(c)
\* followed by the next word part; in a narrower box the next line pass
\* consumes the carried c, emits nothing and carries nothing.
C26_HyphenCarried ==
    /\ GlyphCarried
    /\ GlyphStartsNextLine(CharWidth)
    /\ \A i \in Passes :
          /\ lines[i].carriedOut = HyphenWord
          /\ lineWidth < CharWidth
          /\ i + 1 <= Len(lines)
          => /\ lines[i + 1].elems = <<>>
             /\ lines[i + 1].carriedOut = NoToken
             /\ lines[i + 1].end = lines[i].end

\* a line that ended with the glyph carried, and the next line: the glyph
\* and the next word part
C26_Witness ==
    \E i \in Passes :
        /\ i + 1 <= Len(lines)
        /\ lines[i].carriedOut = HyphenWord
        /\ lineWidth >= CharWidth
        /\ Len(lines[i + 1].elems) >= 2
        /\ lines[i + 1].elems[1] = PrintedCharacters(HyphenWord)
        /\ lines[i + 1].elems[2].e = "Chars"

\* the element parser is about to process the first word of the line, and
\* the line has no room for one character
FirstWordStuck ==
    /\ pc = "line" /\ lep.st = "ProcessToken" /\ IsWord(lep.tk)
    /\ lep.first_word
    /\ ~fits_in_line(lep, CharWidth)

\* the line pass l had no room for one character of its first word
StuckPass(l) ==
    /\ IsWord(FirstToken(l))
    /\ l.left + CharWidth > lineWidth
    /\ l.elems = <<>>
    /\ l.carriedOut = NoToken

\* C27 as stated: after a line pass whose first word could not place one
\* character no further line pass is performed.
C27_AsStated ==
    \A i \in Passes :
        StuckPass(lines[i]) => i = Len(lines) /\ pc # "line"

\* C27: when the first word of a line cannot place one character the line
\* pass ends by finish_end_of_string: the word is consumed, nothing is
\* emitted and nothing is carried.  The driver goes on: it starts a line
\* pass for the rest of the text when the parser is not empty, and returns
\* when it is.
C27_StuckWordConsumed ==
    /\ [](FirstWordStuck
            => /\ LepNext(lep).out = NoElement
               /\ LepNext(lep).s.st = "Done"
               /\ LepNext(lep).s.carried = NoToken
               /\ LepNext(lep).s.pos = lep.pos)
    /\ [][FirstWordStuck /\ pc' # "error"
            => /\ pc' = "loop"
               /\ carried' = NoToken
               /\ parser' = lep.pos
               /\ elems' = elems
               /\ Len(lines') = Len(lines) + 1]_vars
    /\ [][pc = "loop" /\ lines # <<>> /\ StuckPass(lines[Len(lines)])
            => IF ParserIsEmpty(text, parser)
               THEN pc' = "done" /\ lines' = lines
               ELSE pc' = "line" /\ lines' = lines
                    /\ lep'.pos > parser]_vars

\* a draw that returned after a line pass whose first word could not place
\* one character and, after it, a line pass that emitted an element
C27_Witness ==
    /\ pc = "done"
    /\ \E i \in Passes : \E j \in Passes :
          /\ i < j
          /\ StuckPass(lines[i])
          /\ lines[j].elems # <<>>

\* the tokens LineElementParser::new forgets when it finds them carried
Discarded == {NewLine, CarriageReturn, BreakNone}

\* the text is made of words, spaces, no-break spaces and newlines
PlainText == \A i \in 1..Len(text) : text[i] \in {"a", " ", "_", "N"}

\* the NewLine characters of the text
NewLines == Cardinality({i \in 1..Len(text) : text[i] = "N"})

\* every run of the text without a NewLine is at most as wide as the line
SegmentsFit ==
    \A i \in 1..Len(text) : \A j \in i..Len(text) :
        (\A k \in i..j : text[k] # "N") => str_width(SubSeq(text, i, j)) <= lineWidth

\* the line passes that ended on a NewLine
NewLinePasses == Cardinality({i \in Passes : lines[i].carriedOut = NewLine})

\* the line pass that starts takes the carried token for its first token,
\* unless it is one of those the constructor forgets: then, as with an
\* empty carry slot, it takes the parser's next token.  The carry slot is
\* empty while the line is processed.
CarriedStartsLine ==
    [][pc = "loop" /\ pc' = "line"
         => /\ lep'.carried = NoToken
            /\ IF carried = NoToken \/ carried \in Discarded
               THEN /\ lep'.tk = ParserNext(text, parser).tok
                    /\ lep'.pos = ParserNext(text, parser).pos
               ELSE /\ lep'.tk = carried
                    /\ lep'.pos = parser]_vars

\* C28: after each line pass the carry slot holds None or the one token
\* that starts the next line; a carried NewLine, CarriageReturn or
\* Break(None) is forgotten by the constructor of the next line, which
\* starts from the parser's next token, so no NewLine ends two line
\* passes; and a non-empty text of words and spaces with k NewLine
\* characters, each of whose segments is at most as wide as the line, is
\* laid out in exactly k + 1 line passes.
C28_CarrySlot ==
    /\ CarriedStartsLine
    /\ [](\A i \in Passes :
             /\ lines[i].carriedOut = NewLine => text[lines[i].end - 1] = "N"
             /\ \A j \in Passes :
                   /\ i # j
                   /\ lines[i].carriedOut = NewLine
                   /\ lines[j].carriedOut = NewLine
                   => lines[i].end # lines[j].end)
    /\ [](pc = "done" => NewLinePasses = NewLines)
    /\ [](pc = "done" /\ text # <<>> /\ PlainText /\ SegmentsFit
            => Len(lines) = NewLines + 1)

\* the step returns a MoveCursor element on a line that is drawn
MoveCursorStep ==
    /\ pc = "line" /\ pc' = "line"
    /\ DisplayedRows(cursorY) > 0
    /\ Len(elems') = Len(elems) + 1
    /\ elems'[Len(elems')].e = "Move"

\* C30: after every MoveCursor(dx) element of a line that is drawn the pen
\* of the render handler is at the x of the layout cursor, and inside the
\* line; a move back by more than the column leaves both at column 0, and
\* a move forward past the right edge leaves neither beyond it.
C30_MoveCursorAgrees ==
    [][MoveCursorStep
         => /\ penX' = lep'.x
            /\ 0 <= penX' /\ penX' <= lineWidth
            /\ 0 <= lep'.x /\ lep'.x <= lineWidth
            /\ -elems'[Len(elems')].a > lep.x => lep'.x = 0 /\ penX' = 0]_vars

----------------------------------------------------------------------------
(* Properties of the Tab arm of the line parser *)

\* the line parser is about to process a Tab
AtTab == pc = "line" /\ lep.st = "ProcessToken" /\ lep.tk.k = "Tab"

\* what the round that processes the Tab returns
TabRound == ProcessToken(lep, lep.tk)

\* the next tab stop: the smallest multiple of the tab width, counted from
\* the left edge of the line, that is greater than the column x
NextTabStop(x) ==
    CHOOSE t \in 1..(x + TabWidth) :
        /\ t % TabWidth = 0 /\ t > x
        /\ \A u \in 1..(x + TabWidth) : u % TabWidth = 0 /\ u > x => t <= u

----------------------------------------------------------------------------
(* Progress of the line passes *)

\* the carried token t is a strictly smaller one than u: a shorter suffix
\* of the same Word, or a Whitespace of a smaller count
SmallerToken(t, u) ==
    \/ /\ t.k = "Word" /\ u.k = "Word"
       /\ t.b = u.b /\ t.a > u.a /\ t.a < t.b
    \/ /\ t.k = "Whitespace" /\ u.k = "Whitespace"
       /\ 0 < t.a /\ t.a < u.a

\* the line pass l consumed input
Consumed(l) == l.end > l.start

\* the line pass l emptied the carry slot
CarryEmptied(l) == l.carriedIn # NoToken /\ l.carriedOut = NoToken

\* the line pass l left the last space of a carried Whitespace undrawn and
\* carried the wrap in its place
CarryWrapped(l) == l.carriedIn = Whitespace(1) /\ l.carriedOut = BreakNone

\* C33 as stated: every line pass consumes input, or replaces the carried
\* token by a shorter Word suffix, by a smaller Whitespace count or by
\* None.
C33_AsStated ==
    \A i \in Passes :
        \/ Consumed(lines[i])
        \/ SmallerToken(lines[i].carriedOut, lines[i].carriedIn)
        \/ CarryEmptied(lines[i])

\* C33: every line pass consumes input, or replaces the carried token by
\* a shorter Word suffix, by a smaller Whitespace count, by None, or a
\* carried Whitespace(1) by Break(None); no line pass leaves the parser
\* position and the carried token as they were.
C33_Progress ==
    \A i \in Passes :
        /\ \/ Consumed(lines[i])
           \/ SmallerToken(lines[i].carriedOut, lines[i].carriedIn)
           \/ CarryEmptied(lines[i])
           \/ CarryWrapped(lines[i])
        /\ lines[i].start <= lines[i].end
        /\ ~(lines[i].end = lines[i].start
               /\ lines[i].carriedOut = lines[i].carriedIn)

\* a draw with a line pass that consumed nothing and carried a smaller
\* token, and one that carried the wrap in place of the last space
C33_Witness ==
    /\ pc = "done"
    /\ \E i \in Passes :
          /\ ~Consumed(lines[i])
          /\ SmallerToken(lines[i].carriedOut, lines[i].carriedIn)
    /\ \E i \in Passes : ~Consumed(lines[i]) /\ CarryWrapped(lines[i])

----------------------------------------------------------------------------
(* Properties of two layouts of a text box *)

\* both layouts are done: `first` holds the text as it was and its line
\* passes, text and lines the plain variant and its line passes
BothLaidOut == pc = "done" /\ run = 2

\* the positions of the text at which the line passes ls split a word
SplitsOf(ls) ==
    {ls[i].carriedOut.a : i \in {j \in 1..Len(ls) : EndsInsideWord(ls[j])}}

\* the line passes of ls that emitted an element that is drawn
DrawnPasses(ls) ==
    {i \in 1..Len(ls) : \E j \in 1..Len(ls[i].elems) :
                            IsDisplayCall(ls[i].elems[j])}

\* the text had a zero width space between two words
HadZwsp == \E i \in 1..Len(first.text) : first.text[i] = "Z"

\* the number of rows of the box the line passes ls use: each line pass is
\* one row, and the last row used is that of the last pass that drew
LinesUsed(ls) ==
    IF DrawnPasses(ls) = {} THEN 0
    ELSE CHOOSE i \in DrawnPasses(ls) : \A j \in DrawnPasses(ls) : j <= i

\* C21: two words with U+200B between them use no more lines of the box
\* than the same two words with a space between them, and a word is split
\* in the middle only where the layout with the space splits it too.
C21_WrapStability ==
    BothLaidOut /\ HadZwsp
        => /\ LinesUsed(first.lines) <= LinesUsed(lines)
           /\ SplitsOf(first.lines) \subseteq SplitsOf(lines)

\* the text had an SGR sequence, and each was between two characters of a
\* word
HadSgrInWord ==
    /\ \E i \in 1..Len(first.text) : first.text[i] = "E"
    /\ \A i \in 1..Len(first.text) :
          first.text[i] = "E"
              => /\ 1 < i /\ i < Len(first.text)
                 /\ first.text[i - 1] = "a" /\ first.text[i + 1] = "a"

\* the characters and the spaces the elements es put on a line
CharsOn(es) ==
    SumPlaced(SelectSeq(es, LAMBDA e : e.e \in {"Chars", "Hyphen"}))

SpacesOn(es) == SumPlaced(SelectSeq(es, LAMBDA e : e.e = "Space"))

\* the line breaks of the line passes ls: what each line holds
LineBreaks(ls) ==
    [i \in 1..Len(ls) |-> <<CharsOn(ls[i].elems), SpacesOn(ls[i].elems)>>]

\* the line parser is about to process an escape sequence
AtEscape == pc = "line" /\ lep.st = "ProcessToken" /\ lep.tk.k = "Escape"

\* C29: a text with an SGR sequence between two characters of a word has
\* the line breaks of the text without the sequence, and processing an
\* escape sequence leaves the carry slot as it was and ends the line only
\* at the end of the text.
C29_EscapeNoWrap ==
    /\ BothLaidOut /\ HadSgrInWord
          => LineBreaks(first.lines) = LineBreaks(lines)
    /\ AtEscape
          => /\ ProcessToken(lep, lep.tk).s.carried = lep.carried
             /\ ProcessToken(lep, lep.tk).s.st = "Done"
                   => ParserIsEmpty(text, lep.pos)

----------------------------------------------------------------------------
(* Properties of the parser *)

\* the tokens next() has returned so far
Yielded == SelectSeq(tokens, LAMBDA r : r.tok # NoToken)

\* the breaking whitespace code points: those a Whitespace token counts
IsBreakingSpace(c) == c \in {" ", "S"}

RECURSIVE Spaces(_)
Spaces(n) == IF n = 0 THEN <<>> ELSE <<" ">> \o Spaces(n - 1)

\* what a token stands for: the slice of a Word, n spaces for
\* Whitespace(n), one character for NewLine, CarriageReturn and Break
TokenText(r) ==
    IF r.tok.k = "Word" THEN SubSeq(text, r.tok.a, r.tok.b - 1)
    ELSE IF r.tok.k = "Whitespace" THEN Spaces(r.tok.a)
    ELSE IF r.tok.k = "NewLine" THEN <<"N">>
    ELSE IF r.tok.k = "CarriageReturn" THEN <<"R">>
    ELSE IF r.tok.k = "Break" THEN <<"Z">>
    ELSE <<>>

RECURSIVE Concat(_)
Concat(rs) ==
    IF rs = <<>> THEN <<>> ELSE TokenText(Head(rs)) \o Concat(Tail(rs))

\* a U+200B absorbed into a whitespace run: a breaking space comes before
\* it with nothing but U+200B in between
Absorbed(i) ==
    /\ text[i] = "Z"
    /\ \E j \in 1..(i - 1) :
          /\ IsBreakingSpace(text[j])
          /\ \A k \in (j + 1)..(i - 1) : text[k] = "Z"

RECURSIVE Kept(_, _)
\* the code points i..n of the text without the absorbed U+200B
Kept(i, n) ==
    IF i > n THEN <<>>
    ELSE (IF Absorbed(i) THEN <<>> ELSE <<text[i]>>) \o Kept(i + 1, n)

\* a sequence of code points with every breaking whitespace read as U+0020
AsSpaces(cs) == [i \in 1..Len(cs) |-> IF IsBreakingSpace(cs[i]) THEN " " ELSE cs[i]]

\* the parser is empty exactly when next() returns None
EmptyIffNone ==
    ParserIsEmpty(text, parser) <=> ParserNext(text, parser).tok = NoToken

\* the tokens were read one after the other, each from at least one code
\* point
InOrder ==
    \A i \in 1..Len(Yielded) :
        /\ Yielded[i].from = IF i = 1 THEN 1 ELSE Yielded[i - 1].to
        /\ Yielded[i].from < Yielded[i].to

\* C14 as stated: the Word slices, n spaces for each Whitespace(n) and one
\* character for each NewLine, CarriageReturn and Break, concatenated,
\* are the input read so far without the absorbed U+200B.
C14_AsStated ==
    /\ Concat(Yielded) = Kept(1, parser - 1)
    /\ EmptyIffNone

\* C14: the token stream accounts for every code point exactly once and in
\* order: each token is read from the code points right after those of the
\* token before it, and the Word slices, n spaces for each Whitespace(n)
\* and one character for each NewLine, CarriageReturn and Break,
\* concatenated, are the input read so far without the absorbed U+200B and
\* with every breaking whitespace code point read as a space; the parser is
\* empty exactly when next() returns None.
C14_Coverage ==
    /\ InOrder
    /\ Concat(Yielded) = AsSpaces(Kept(1, parser - 1))
    /\ EmptyIffNone

\* a text read to its end that holds a breaking whitespace other than
\* U+0020, an absorbed U+200B and a word
C14_Witness ==
    /\ pc = "parse"
    /\ tokens # <<>>
    /\ tokens[Len(tokens)].tok = NoToken
    /\ \E i \in 1..Len(text) : text[i] = "S"
    /\ \E i \in 1..Len(text) : Absorbed(i)
    /\ \E i \in 1..Len(Yielded) : Yielded[i].tok.k = "Word"

\* the code points a token was read from
Span(r) == r.from..(r.to - 1)

\* the count of a Whitespace token is the number of its code points other
\* than U+200B
CountsNoZwsp(r) == r.tok.a = Cardinality({p \in Span(r) : text[p] # "Z"})

C16_PeekIdempotent ==
    [][/\ peeked'.valid
          => /\ parser' = parser
             /\ tokens' = tokens
             /\ peeked'.tok = ParserNext(text, parser).tok
       /\ peeked.valid /\ peeked'.valid => peeked'.tok = peeked.tok
       /\ peeked.valid /\ tokens' # tokens
          => tokens'[Len(tokens')].tok = peeked.tok]_vars

\* a peek in the middle of a text that returned a word
C16_Witness ==
    /\ peeked.valid
    /\ peeked.tok.k = "Word"
    /\ parser > 1
    /\ tokens # <<>>

\* the code points that end a word
EndsWord(c) == c \in {" ", "S", "N", "R", "Z"}

\* C17: a Word token is a non-empty, maximal run of word characters, with
\* U+00A0 a word character: it holds no breaking whitespace, newline,
\* carriage return or U+200B, and the code points before and after it are
\* of these (so U+00A0 never ends a word); no Whitespace token is read
\* from a U+00A0; two Word tokens, or two Whitespace tokens, never follow
\* one another.
C17_WordTokens ==
    \A i \in 1..Len(Yielded) :
        LET r == Yielded[i] IN
        /\ r.tok.k = "Word"
             => /\ r.tok.a = r.from /\ r.tok.b = r.to
                /\ r.from < r.to
                /\ \A p \in Span(r) : ~EndsWord(text[p])
                /\ r.to <= Len(text) => EndsWord(text[r.to])
                /\ r.from > 1 => EndsWord(text[r.from - 1])
        /\ r.tok.k = "Whitespace"
             => \A p \in Span(r) : text[p] # SPEC_CHAR_NBSP
        /\ i > 1
             => /\ ~(r.tok.k = "Word" /\ Yielded[i - 1].tok.k = "Word")
                /\ ~(r.tok.k = "Whitespace"
                       /\ Yielded[i - 1].tok.k = "Whitespace")

\* a word with a U+00A0 inside it, read after a whitespace
C17_Witness ==
    \E i \in 2..Len(Yielded) :
        /\ Yielded[i].tok.k = "Word"
        /\ Yielded[i].to >= Yielded[i].from + 3
        /\ text[Yielded[i].from + 1] = SPEC_CHAR_NBSP
        /\ Yielded[i - 1].tok.k = "Whitespace"

\* the code points of a whitespace run: breaking spaces and U+200B
InRun(c) == IsBreakingSpace(c) \/ c = "Z"

\* i..j is a whitespace run of the text: breaking spaces and U+200B, with
\* neither before it nor after it
IsRun(i, j) ==
    /\ 1 <= i /\ i <= j /\ j <= Len(text)
    /\ \A p \in i..j : InRun(text[p])
    /\ i > 1 => ~InRun(text[i - 1])
    /\ j < Len(text) => ~InRun(text[j + 1])

\* the whitespace runs the parser has read to their end
RunsRead ==
    {ij \in (1..Len(text)) \X (1..Len(text)) :
        IsRun(ij[1], ij[2]) /\ ij[2] < parser}

\* the number of breaking spaces among the code points i..j
BreakingSpaces(i, j) == Cardinality({p \in i..j : IsBreakingSpace(text[p])})

\* one token, Whitespace(n), was read from the code points i..j
ReadAsWhitespace(i, j, n) ==
    \E k \in 1..Len(Yielded) :
        /\ Yielded[k].from = i /\ Yielded[k].to = j + 1
        /\ Yielded[k].tok = Whitespace(n)

\* a Break was read from the U+200B at i
ReadAsBreak(i) ==
    \E k \in 1..Len(Yielded) :
        /\ Yielded[k].from = i /\ Yielded[k].to = i + 1
        /\ Yielded[k].tok = BreakNone

\* a U+200B at z between two words was read as Word, Break, Word
BetweenWords ==
    \A z \in 2..(Len(text) - 1) :
        /\ text[z] = "Z" /\ is_word_char(text[z - 1])
        /\ is_word_char(text[z + 1]) /\ z + 1 < parser
        => \E k \in 2..(Len(Yielded) - 1) :
              /\ Yielded[k].from = z /\ Yielded[k].tok = BreakNone
              /\ Yielded[k - 1].tok.k = "Word" /\ Yielded[k - 1].to = z
              /\ Yielded[k + 1].tok.k = "Word" /\ Yielded[k + 1].from = z + 1

\* C32 as stated: every whitespace run that holds a breaking space and a
\* U+200B is one Whitespace token that counts the breaking spaces of the
\* whole run, and a U+200B between two words gives Word, Break, Word.
C32_AsStated ==
    /\ \A ij \in RunsRead :
          /\ \E p \in ij[1]..ij[2] : text[p] = "Z"
          /\ \E p \in ij[1]..ij[2] : IsBreakingSpace(text[p])
          => ReadAsWhitespace(ij[1], ij[2], BreakingSpaces(ij[1], ij[2]))
    /\ BetweenWords

\* the first breaking space of the run i..j, or j + 1 when it has none
FirstSpace(i, j) ==
    IF \E p \in i..j : IsBreakingSpace(text[p])
    THEN CHOOSE p \in i..j :
            IsBreakingSpace(text[p]) /\ \A q \in i..(p - 1) : text[q] = "Z"
    ELSE j + 1

\* C32: a whitespace run that starts with a breaking space and holds a
\* U+200B is one Whitespace token that counts the breaking spaces of the
\* whole run, the U+200B adding 0; each U+200B before the first breaking
\* space of a run is a Break token of its own, and the rest of the run is
\* one Whitespace token; a U+200B between two words gives Word, Break,
\* Word.
C32_ZwspInRun ==
    /\ \A ij \in RunsRead :
          /\ \A z \in ij[1]..(FirstSpace(ij[1], ij[2]) - 1) : ReadAsBreak(z)
          /\ FirstSpace(ij[1], ij[2]) <= ij[2]
                => ReadAsWhitespace(FirstSpace(ij[1], ij[2]), ij[2],
                       BreakingSpaces(ij[1], ij[2]))
    /\ BetweenWords

\* two spaces, a U+200B and a space were read as Whitespace(3), and a
\* U+200B between two words as a Break
C32_Witness ==
    /\ \E ij \in RunsRead :
          /\ ij[2] = ij[1] + 3
          /\ text[ij[1] + 2] = "Z"
          /\ ReadAsWhitespace(ij[1], ij[2], 3)
    /\ pc = "parse"

----------------------------------------------------------------------------
(* Properties of the space configuration and of max_space_width *)

RECURSIVE SumSeq(_)
SumSeq(ws) == IF ws = <<>> THEN 0 ELSE Head(ws) + SumSeq(Tail(ws))

\* the widths of the k spaces taken after the peek p
TakenAfter(p) == SubSeq(sc.widths, p.at + 1, p.at + p.k)

\* every width peeked is the sum of the widths taken after the peek, and
\* the widths taken are those of the configuration as it was made
PeekSums ==
    /\ \A i \in 1..Len(sc.peeks) :
          Len(sc.widths) >= sc.peeks[i].at + sc.peeks[i].k
              => sc.peeks[i].w = SumSeq(TakenAfter(sc.peeks[i]))
    /\ \A i \in 1..Len(sc.widths) :
          sc.widths[i] = IF i <= sc.cfg0.space_count
                         THEN sc.cfg0.space_width + 1
                         ELSE sc.cfg0.space_width
    /\ \A k \in 0..MaxSpaces :
          peek_next_width(sc.cfg, k) = consume(sc.cfg, k).w
    /\ sc.cfg.space_width = sc.cfg0.space_width
    /\ sc.cfg.space_count + Len(sc.widths) >= sc.cfg0.space_count
    /\ sc.cfg.space_count <= sc.cfg0.space_count

\* the peek takes no space: the configuration after it is the one before
PeekKeepsConfig ==
    sc'.peeks # sc.peeks => sc'.cfg = sc.cfg /\ sc'.widths = sc.widths

\* C34: peek_next_width(k) leaves the configuration as it is; the width
\* it returns is the sum of the widths of the next k spaces taken one at a
\* time; the first `extras` spaces taken are base + 1 pixels wide and all
\* later ones base pixels.
C34_PeekIsSum == []PeekSums /\ [][PeekKeepsConfig]_vars

\* a peek at three spaces after one space was taken, two of them wider,
\* and all three taken after it
C34_Witness ==
    /\ pc = "spaces"
    /\ \E i \in 1..Len(sc.peeks) :
          /\ sc.peeks[i].k = 3 /\ sc.peeks[i].at = 1
          /\ Len(sc.widths) >= 4
          /\ TakenAfter(sc.peeks[i])[1] = sc.cfg0.space_width + 1
          /\ TakenAfter(sc.peeks[i])[2] = sc.cfg0.space_width + 1
          /\ TakenAfter(sc.peeks[i])[3] = sc.cfg0.space_width

\* C38: max_space_width(n, max_width) is (k * w, k), w the advance of a
\* space and k the largest count with k <= n and k * w <= max_width; the
\* width is at most max_width and the count at most n.
C38_MaxSpaceWidth ==
    sc.done
        => /\ sc.measured[1] = sc.measured[2] * CharWidth
           /\ sc.measured[2] <= sc.n
           /\ sc.measured[1] <= sc.max_width
           /\ \A k \in 0..MaxSpaces :
                 k <= sc.n /\ k * CharWidth <= sc.max_width
                     => k <= sc.measured[2]

\* spaces measured for a room that holds some but not all of them, and
\* for a room with a pixel to spare
C38_Witness ==
    /\ sc.done
    /\ 0 < sc.measured[2] /\ sc.measured[2] < sc.n
    /\ sc.measured[1] < sc.max_width

----------------------------------------------------------------------------
(* Properties of the escape sequence parser *)

\* the value of the digits ds, read as a decimal number
RECURSIVE Decimal(_)
Decimal(ds) ==
    IF ds = <<>> THEN 0
    ELSE 10 * Decimal(SubSeq(ds, 1, Len(ds) - 1)) + DigitValue(ds[Len(ds)])

\* the digits at the start of the parameters of the sequence: at most
\* three are one parameter
RECURSIVE DigitsFrom(_, _)
DigitsFrom(cs, i) ==
    IF i > Len(cs) \/ cs[i] \notin Digits THEN <<>>
    ELSE <<cs[i]>> \o DigitsFrom(cs, i + 1)

FirstParameter ==
    LET ds == DigitsFrom(ansi.input, 2)
    IN IF Len(ds) > 3 THEN SubSeq(ds, 1, 3) ELSE ds

\* the sequence was read, or reading it panicked
EscapeRead == ansi.st \in {"parsed", "rejected", "panicked"}

\* the first parameter of the sequence has three digits and a value
\* above 255
ParameterTooLarge ==
    /\ ansi.input # <<>> /\ ansi.input[1] = "["
    /\ Len(FirstParameter) = 3
    /\ Decimal(FirstParameter) > 255

\* C35: a sequence whose three digit parameter is above 255 is rejected
\* as malformed: reading it does not panic, gives no token computed from
\* a wrapped value, and leaves the input to be read as ordinary text.
C35_NoOverflow ==
    EscapeRead /\ ParameterTooLarge
        => /\ ansi.st = "rejected"
           /\ ansi.tok = NoColour
           /\ ansi.pos = 1

\* the sequence is `[`, a parameter of one to three digits and `m`
SingleParameter ==
    /\ Len(ansi.input) >= 3
    /\ ansi.input[1] = "["
    /\ ansi.input[Len(ansi.input)] = "m"
    /\ Len(DigitsFrom(ansi.input, 2)) = Len(ansi.input) - 2
    /\ Len(ansi.input) - 2 \in 1..3
    /\ Decimal(FirstParameter) <= 255

Code == Decimal(FirstParameter)

\* the elements of the first line pass of the draw
FirstLine == IF lines = <<>> THEN elems ELSE lines[1].elems

\* C36: the codes 30..37 and 90..97 give the entries 0..7 and 8..15 of
\* the table of 16 colours as text colour, the codes 40..47 and 100..107
\* the same entries as background colour, ESC[92m gives Rgb(22, 198, 12);
\* the Sgr element of the sequence is emitted before the characters of
\* the word after it, which are drawn in the style it set.
C36_ColourTable ==
    /\ EscapeRead /\ SingleParameter
          => /\ \A i \in 0..7 :
                   /\ Code = 30 + i
                         => ansi.tok = ChangeTextColor(standard_to_rgb(i))
                   /\ Code = 90 + i
                         => ansi.tok = ChangeTextColor(standard_to_rgb(8 + i))
                   /\ Code = 40 + i
                         => ansi.tok = ChangeBackgroundColor(standard_to_rgb(i))
                   /\ Code = 100 + i
                         => ansi.tok
                              = ChangeBackgroundColor(standard_to_rgb(8 + i))
             /\ Code = 92 => ansi.tok.rgb = <<22, 198, 12>>
             /\ Code \in (30..37) \cup (40..47) \cup (90..97) \cup (100..107)
                   => ansi.st = "parsed" /\ ansi.pos = Len(ansi.input) + 1
    /\ ansi.st = "parsed" /\ ansi.tok # EscapeToken
          => /\ \A j \in 1..Len(FirstLine) :
                   FirstLine[j].e = "Chars"
                       => \E i \in 1..(j - 1) : FirstLine[i].e = "Sgr"
             /\ \A j \in 1..Len(screen) :
                   screen[j].e.e = "Chars" => screen[j].style = SgrApply(BaseStyle)

\* ESC[92m was read as the text colour Rgb(22, 198, 12), and the word
\* after it was drawn
C36_Witness ==
    /\ pc = "done"
    /\ ansi.input = <<"[", "9", "2", "m">>
    /\ ansi.tok = ChangeTextColor(<<22, 198, 12>>)
    /\ Len(screen) = 1
    /\ screen[1].e.e = "Chars"
    /\ Len(FirstLine) = 2

----------------------------------------------------------------------------
(* Properties of the character iterator *)

\* the last row of the character that the row range holds, and one more
RowsEnd == IF ci.rows[2] < CharHeight THEN ci.rows[2] ELSE CharHeight

\* the whole height of the character is displayed
WholeCharacter == ci.rows[1] = 0 /\ ci.rows[2] >= CharHeight

\* C37: every pixel is in a row of the row range, clamped to the height
\* of the character, or in the underline row below the character when the
\* character is underlined and its whole height is displayed; every pixel
\* is in a column of the character; the iterator returns no more pixels
\* than the character and its underline row hold, each point once.
C37_RowsClipped ==
    /\ \A i \in 1..Len(ci.pixels) :
          /\ \/ ci.rows[1] <= ci.pixels[i].p[2] /\ ci.pixels[i].p[2] < RowsEnd
             \/ /\ ci.pixels[i].p[2] = CharHeight
                /\ ci.underline /\ WholeCharacter
          /\ ci.pixels[i].p[1] \in 0..(GlyphWidth - 1)
          /\ \A j \in 1..(i - 1) : ci.pixels[j].p # ci.pixels[i].p
    /\ Len(ci.pixels) <= GlyphWidth * (CharHeight + 1)

====
